---- MODULE Spec2Model ----
(***************************************************************************)
(* The frame loop of KesslerGame.run (src/src/kesslergame/kessler_game.py) *)
(* with the entities it schedules: Ship (ship.py), Mine (mines.py),        *)
(* Asteroid (asteroid.py), Bullet (bullet.py), Scenario (scenario.py).     *)
(*                                                                         *)
(* Time is counted in tenths of a second.  The floating-point geometry     *)
(* (collisions.py, math_utils.py) is not computed: the result of every     *)
(* collision-time query and every squared distance is an input of the      *)
(* step that asks for it, drawn from a small set.  Python's 0-based list   *)
(* indices are 1-based here.                                               *)
(***************************************************************************)
EXTENDS Integers, Sequences, FiniteSets, TLC

\* ---- settings and physical constants (tenths of a second) --------------
DeltaTime == 15          \* KesslerGame.delta_time, frequency = 2/3 Hz
RespawnTime == 30        \* Ship._respawn_time = 3.0 s
FireTime == 1            \* Ship._fire_time = 0.1 s
MineDeployTime == 10     \* Ship._mine_deploy_time = 1.0 s
FuseTime == 30           \* Mine.fuse_time = 3.0 s
BlastRadius == 150       \* Mine.blast_radius
ShipRadius == 20         \* Ship.radius
MaxSpeed == 240          \* Ship.max_speed
BulletSpeed == 800       \* Bullet.speed
BulletLength == 12       \* Bullet.length
MapWidth == 1000         \* Scenario.map_size[0]
Inf == 1000000           \* math.inf (time limits)
GameTimeLimit == Inf     \* KesslerGame.time_limit, the setting's default
NaN == 1                 \* math.nan as a collision time (real times are <= 0)

\* ---- bounds of the model ------------------------------------------------
MaxFrames == 4           \* frames explored when the time limit is infinite

\* ---- input sets ---------------------------------------------------------
\* what a collision-time query may report for a pair: NaN (no collision) or
\* a time; collision_time_interval may report a start before the frame
RawTimes == {-2 * DeltaTime, 0, NaN}
CollisionTimes == {-DeltaTime, 0, NaN}
\* distances between a mine and a target at the blast
Dists == {0, 100, 200}
\* what the motion integration of Ship.update may yield: <<x, speed>>, and
\* with them the heading after the update: a ship at rest near the left
\* edge facing out of the map (a bullet it fires has its head outside and
\* its tail inside), or one at full speed along the x axis
Xs == {10, 100}
Motions == {<<10, 0, 180>>, <<100, MaxSpeed, 0>>}

isnan(t) == t = NaN

not_stopped == "not_stopped"
no_ships == "no_ships"
no_asteroids == "no_asteroids"
time_expired == "time_expired"
out_of_bullets == "out_of_bullets"
StopReason == {not_stopped, no_ships, no_asteroids, time_expired, out_of_bullets}

\* ---- pure helpers -------------------------------------------------------
Range(s) == {s[i] : i \in DOMAIN s}

RECURSIVE SumSeq(_)
SumSeq(s) == IF s = <<>> THEN 0 ELSE Head(s) + SumSeq(Tail(s))

Max(a, b) == IF a >= b THEN a ELSE b

RECURSIVE Pow3(_)
Pow3(n) == IF n <= 0 THEN 1 ELSE 3 * Pow3(n - 1)

\* Scenario.count_asteroids: sum of 3^(size-1) for size in 1..asteroid_size
RECURSIVE count_asteroids(_)
count_asteroids(asteroid_size) ==
    IF asteroid_size <= 0 THEN 0
    ELSE Pow3(asteroid_size - 1) + count_asteroids(asteroid_size - 1)

\* Asteroid.radius = size * 8
AsteroidRadius(size) == size * 8

\* Python's None, for an optional integer argument
None == -1000

\* Asteroid.__init__ size handling: a falsy size (None, 0) gives 4
AsteroidSize(size) == IF size # None /\ size # 0 THEN size ELSE 4

\* Asteroid.__init__ raises ValueError: a truthy size that is not in 1..4
SizeError(size) == (size # None /\ size # 0) /\ ~(1 <= size /\ size <= 4)

\* Asteroid.__init__: the size (4 when none is given), and the content of the
\* list _position, which is also the "position" entry of the state dict:
\* "own" when it holds the asteroid's x and y, "written" when it holds what
\* somebody else stored in it
Asteroid(size) == [size |-> AsteroidSize(size), position |-> "own"]

\* Asteroid.update, as far as the state dict goes: _position is set to x, y
AsteroidUpdate(a) == [a EXCEPT !.position = "own"]

\* AsteroidDestruct that spawns two children
AsteroidDestruct_TwoChildren(a) ==
    IF a.size # 1 THEN [i \in 1..2 |-> Asteroid(a.size - 1)] ELSE <<>>

\* Asteroid.destruct: three children of size - 1, none for size 1
AsteroidDestruct(a) ==
    IF a.size # 1 THEN [i \in 1..3 |-> Asteroid(a.size - 1)] ELSE <<>>

\* list[idx] = list[-1]; list.pop()
SwapPop(list, idx) ==
    SubSeq([list EXCEPT ![idx] = list[Len(list)]], 1, Len(list) - 1)

\* sorted(idxs, reverse=True) for a list of distinct indices
RECURSIVE SortedReverse(_)
SortedReverse(idxs) ==
    IF idxs = <<>> THEN <<>>
    ELSE LET m == CHOOSE x \in Range(idxs) : \A y \in Range(idxs) : y <= x
             rest == SelectSeq(idxs, LAMBDA y : y # m)
         IN <<m>> \o SortedReverse(rest)

\* list.reverse()
RECURSIVE Reverse(_)
Reverse(s) == IF s = <<>> THEN <<>> ELSE Reverse(Tail(s)) \o <<Head(s)>>

\* a removal loop that leaves the list as it is
CullAll_Keep(list, idxs) == list

\* for idx in idxs: swap-and-pop list[idx]
RECURSIVE CullAll(_, _)
CullAll(list, idxs) ==
    IF idxs = <<>> THEN list
    ELSE CullAll(SwapPop(list, Head(idxs)), Tail(idxs))

\* InsertIndex that also steps over the candidates of equal time
RECURSIVE InsertIndex_BeforeEqual(_, _, _)
InsertIndex_BeforeEqual(list, t, i) ==
    IF i > 0 /\ list[i][1] >= t THEN InsertIndex_BeforeEqual(list, t, i - 1) ELSE i

\* the inline insertion that keeps a candidate list sorted by time
RECURSIVE InsertIndex(_, _, _)
InsertIndex(list, t, i) ==
    IF i > 0 /\ list[i][1] > t THEN InsertIndex(list, t, i - 1) ELSE i

InsertChronologically(list, cand) ==
    LET i == InsertIndex(list, cand[1], Len(list))
    IN SubSeq(list, 1, i) \o <<cand>> \o SubSeq(list, i + 1, Len(list))

\* ---- state --------------------------------------------------------------
VARIABLES
    pc,              \* position of run() inside the current frame
    ships,           \* full roster, dead or alive (list of Ship)
    liveships,       \* roster indices of the live-ship list
    asteroids,       \* list of Asteroid
    bullets,         \* list of Bullet
    mines,           \* list of Mine
    sim_time, sim_frame, stop_reason,
    scenario,        \* the Scenario passed to run()
    time_limit,      \* effective time limit of the run
    commands,        \* ship.fire, ship.drop_mine set by this frame's controllers
    controllers,     \* the controllers passed to run(), each with its ship_id
    collisions,      \* candidate list of the collision step just run
    ships_exempt_from_further_damage,
    cull_ships,
    log,             \* history of the current frame (not program state)
    score,           \* Score.teams: the aggregates of each team
    game_state       \* the GameState run() shares with the controllers when
                     \* competition_safe_mode is off, None when it is on

vars == <<pc, ships, liveships, asteroids, bullets, mines, sim_time, sim_frame,
          stop_reason, scenario, time_limit, commands, controllers,
          collisions, ships_exempt_from_further_damage, cull_ships, log, score,
          game_state>>

\* ---- Scenario -----------------------------------------------------------
\* A scenario gives per ship its lives and mines_remaining, one bullet limit
\* for all ships (-1 unlimited, else >= 1), the asteroid sizes, the time
\* limit (0 for none) and stop_if_no_ammo (which Scenario.__init__ only
\* accepts together with an ammo limit).
Scenarios ==
    { [lives |-> <<2>>, teams |-> <<1>>, mines_remaining |-> <<1>>, bullet_limit |-> 1,
       sizes |-> <<2>>, time_limit |-> 45, stop_if_no_ammo |-> FALSE],
      [lives |-> <<1, 1>>, teams |-> <<1, 2>>, mines_remaining |-> <<1, 1>>, bullet_limit |-> 1,
       sizes |-> <<1>>, time_limit |-> 30, stop_if_no_ammo |-> TRUE],
      [lives |-> <<1, 1, 1>>, teams |-> <<1, 1, 2>>, mines_remaining |-> <<0, 0, 0>>, bullet_limit |-> -1,
       sizes |-> <<1>>, time_limit |-> 10, stop_if_no_ammo |-> FALSE],
      [lives |-> <<1>>, teams |-> <<1>>, mines_remaining |-> <<0>>, bullet_limit |-> -1,
       sizes |-> <<1>>, time_limit |-> 0, stop_if_no_ammo |-> FALSE],
      [lives |-> <<1, 1>>, teams |-> <<1, 1>>, mines_remaining |-> <<0, 0>>, bullet_limit |-> 1,
       sizes |-> <<1, 1>>, time_limit |-> 15, stop_if_no_ammo |-> FALSE] }

\* A scenario one of whose ships has unlimited mines (mines_remaining -1,
\* which Ship.deploy_mine never decrements) and the other a single mine
MixedMineScenarios ==
    { [lives |-> <<1, 1>>, teams |-> <<1, 2>>, mines_remaining |-> <<-1, 1>>, bullet_limit |-> 1,
       sizes |-> <<1>>, time_limit |-> 15, stop_if_no_ammo |-> TRUE] }

\* Scenario.max_asteroids
max_asteroids(sc) ==
    SumSeq([i \in DOMAIN sc.sizes |-> count_asteroids(AsteroidSize(sc.sizes[i]))])

\* Ship.__init__ that starts the respawn timer
Ship_SpawnInvulnerable(ship_id, lives, bullets_remaining, mines_remaining, x) ==
    [id |-> ship_id, x |-> x, speed |-> 0, vx |-> 0,
     lives |-> lives, deaths |-> 0,
     respawning |-> RespawnTime, was_respawning_until_this_frame |-> FALSE,
     fire_limiter |-> 0, mine_limiter |-> 0,
     mines_remaining |-> mines_remaining, bullets_remaining |-> bullets_remaining,
     bullets_shot |-> 0, mines_dropped |-> 0,
     bullets_hit |-> 0, mines_hit |-> 0, asteroids_hit |-> 0]

\* Ship.__init__
Ship(ship_id, lives, bullets_remaining, mines_remaining, x) ==
    [id |-> ship_id, x |-> x, speed |-> 0, vx |-> 0,
     lives |-> lives, deaths |-> 0,
     respawning |-> 0, was_respawning_until_this_frame |-> FALSE,
     fire_limiter |-> 0, mine_limiter |-> 0,
     mines_remaining |-> mines_remaining, bullets_remaining |-> bullets_remaining,
     bullets_shot |-> 0, mines_dropped |-> 0,
     bullets_hit |-> 0, mines_hit |-> 0, asteroids_hit |-> 0]

\* Ship.alive, Ship.is_respawning, Ship.can_fire, Ship.can_deploy_mine
alive(s) == s.lives > 0
is_respawning(s) == s.respawning # 0
can_fire(s) == s.fire_limiter = 0 /\ s.bullets_remaining # 0
can_deploy_mine(s) == s.mine_limiter = 0 /\ s.mines_remaining # 0

\* Mine.__init__; born is the frame of creation
Mine(owner, born) ==
    [owner |-> owner, countdown_timer |-> FuseTime, detonating |-> FALSE,
     born |-> born]

\* Bullet.__init__
\* cos of a heading along the x axis
Cos(heading) == IF heading = 0 THEN 1 ELSE -1

\* Bullet.__init__, along the x axis: x is the head, x + tail_delta_x the tail
Bullet(position, heading, owner) ==
    [owner |-> owner, x |-> position,
     vx |-> BulletSpeed * Cos(heading),
     tail_delta_x |-> -BulletLength * Cos(heading)]

\* Bullet.update
BulletUpdate(b) == [b EXCEPT !.x = @ + (b.vx * DeltaTime) \div 10]

\* the bullet counts as off the map as soon as its head is outside
OffMap_HeadOnly(b) == ~(0 <= b.x /\ b.x <= MapWidth)

\* the off-map test of the bullet step: neither the head nor the tail is
\* inside the map
OffMap(b) ==
    ~( (0 <= b.x /\ b.x <= MapWidth)
       \/ (0 <= b.x + b.tail_delta_x /\ b.x + b.tail_delta_x <= MapWidth) )

\* the history kept of one frame: the calls of Ship.destruct, the candidates
\* resolved by the last collision step, the mines whose countdown expired in
\* the physics phase, what the mine blast saw and credited, the number of
\* asteroids the bullet step appended and the number of bullets the physics
\* phase appended
EmptyLog ==
    [calls |-> <<>>, seen |-> <<>>, raised |-> "none", raiser |-> 0,
     destructs |-> <<>>, resolved |-> <<>>, detonated |-> {},
     detonating_mines |-> <<>>, sq_dists |-> <<>>, credits |-> <<>>,
     spawned |-> 0, fired |-> 0,
     before |-> [ships |-> <<>>, asteroids |-> <<>>, mines |-> <<>>]]

\* one call of Ship.destruct in a collision step, as the history records it
Destructed(ship_idx, s, step) ==
    [ship |-> ship_idx, step |-> step, is_respawning |-> s.respawning # 0,
     lives |-> s.lives, deaths |-> s.deaths, x |-> s.x]

\* Ship.fire and Ship.drop_mine as Ship.__init__ sets them, and as the model
\* leaves them once Ship.update has read them
NoCommand == [fire |-> FALSE, drop_mine |-> FALSE]

\* Team.__init__: the aggregates that Score.update maintains
Team ==
    [asteroids_hit |-> 0, bullets_hit |-> 0, shots_fired |-> 0,
     bullets_remaining |-> 0, deaths |-> 0, lives_remaining |-> 0]

\* ship.team of the roster ship at position i
ShipTeam(i) == scenario.teams[i]

\* ScoreUpdate that only counts the ships of the live list
ScoreUpdate_LiveOnly(roster) ==
    [t \in DOMAIN score |->
        LET mine(f) == SumSeq([i \in DOMAIN roster |->
                                 IF ShipTeam(i) = t /\ i \in Range(liveships)
                                 THEN roster[i][f] ELSE 0])
        IN [asteroids_hit |-> mine("asteroids_hit"),
            bullets_hit |-> mine("bullets_hit"),
            shots_fired |-> mine("bullets_shot"),
            bullets_remaining |-> mine("bullets_remaining"),
            deaths |-> mine("deaths"),
            lives_remaining |-> mine("lives")]]

\* Score.update(ships, ...): per team, the sums over the ships passed
ScoreUpdate(roster) ==
    [t \in DOMAIN score |->
        LET mine(f) == SumSeq([i \in DOMAIN roster |->
                                 IF ShipTeam(i) = t THEN roster[i][f] ELSE 0])
        IN [asteroids_hit |-> mine("asteroids_hit"),
            bullets_hit |-> mine("bullets_hit"),
            shots_fired |-> mine("bullets_shot"),
            bullets_remaining |-> mine("bullets_remaining"),
            deaths |-> mine("deaths"),
            lives_remaining |-> mine("lives")]]

\* Scenario.ships: ship i at the x of its ship_state
ScenarioShips(sc, xs) ==
    [i \in DOMAIN sc.lives |->
        Ship(i, sc.lives[i], sc.bullet_limit, sc.mines_remaining[i], xs[i])]

\* Scenario.asteroids
ScenarioAsteroids(sc) == [i \in DOMAIN sc.sizes |-> Asteroid(sc.sizes[i])]

\* a controller before it is given a ship
Controller == [ship_id |-> 0]

\* run(): for controller, ship in zip(controllers, ships), with n ships
AssignControllers(ctrls, n) ==
    [k \in DOMAIN ctrls |-> IF k <= n THEN [ctrls[k] EXCEPT !.ship_id = k] ELSE ctrls[k]]

\* state of run() when it enters the main loop of one of the scenarios scs
InitOf(scs) ==
    \E sc \in scs :
        /\ pc = "controllers"
        /\ \E xs \in [DOMAIN sc.lives -> Xs] : ships = ScenarioShips(sc, xs)
        /\ liveships = [i \in DOMAIN sc.lives |-> i]
        /\ asteroids = ScenarioAsteroids(sc)
        /\ controllers = AssignControllers([i \in DOMAIN sc.lives |-> Controller],
                                           Len(sc.lives))
        /\ bullets = <<>>
        /\ mines = <<>>
        /\ sim_time = 0
        /\ sim_frame = 0
        /\ stop_reason = not_stopped
        /\ scenario = sc
        /\ time_limit = IF sc.time_limit # 0 THEN sc.time_limit ELSE GameTimeLimit
        /\ commands = [i \in DOMAIN sc.lives |-> NoCommand]
        /\ collisions = <<>>
        /\ ships_exempt_from_further_damage = <<>>
        /\ cull_ships = FALSE
        /\ log = EmptyLog
        /\ score = [t \in Range(sc.teams) |-> Team]
        /\ game_state = None

Init == InitOf(Scenarios)

\* ---- Ship ---------------------------------------------------------------
\* ShipDestruct that respawns the ship at a fixed spawn point
ShipDestruct_FixedSpawn(s) ==
    [s EXCEPT !.lives = @ - 1, !.deaths = @ + 1,
              !.respawning = RespawnTime,
              !.x = 0, !.speed = 0, !.vx = 0]

\* Ship.destruct followed by Ship.respawn(self.position, self.heading)
ShipDestruct(s) ==
    [s EXCEPT !.lives = @ - 1, !.deaths = @ + 1,
              !.respawning = RespawnTime,
              !.x = s.x, !.speed = 0, !.vx = 0]

\* Ship.fire_bullet that leaves the respawn timer running
fire_bullet_KeepsTimer(s) ==
    IF can_fire(s)
    THEN [ship |-> [s EXCEPT !.fire_limiter = FireTime,
                             !.bullets_remaining = IF @ # -1 THEN @ - 1 ELSE @,
                             !.bullets_shot = @ + 1],
          made |-> TRUE]
    ELSE [ship |-> s, made |-> FALSE]

\* Ship.fire_bullet: the ship afterwards, and whether a bullet is returned
fire_bullet(s) ==
    IF can_fire(s)
    THEN [ship |-> [s EXCEPT !.respawning = 0,
                             !.was_respawning_until_this_frame = TRUE,
                             !.fire_limiter = FireTime,
                             !.bullets_remaining = IF @ # -1 THEN @ - 1 ELSE @,
                             !.bullets_shot = @ + 1],
          made |-> TRUE]
    ELSE [ship |-> s, made |-> FALSE]

\* Ship.deploy_mine that tests the limiter only
deploy_mine_IgnoresAmmo(s) ==
    IF s.mine_limiter = 0
    THEN [ship |-> [s EXCEPT !.respawning = 0,
                             !.was_respawning_until_this_frame = TRUE,
                             !.mine_limiter = MineDeployTime,
                             !.mines_remaining = IF @ # -1 THEN @ - 1 ELSE @,
                             !.mines_dropped = @ + 1],
          made |-> TRUE]
    ELSE [ship |-> s, made |-> FALSE]

\* Ship.deploy_mine: the ship afterwards, and whether a mine is returned
deploy_mine(s) ==
    IF can_deploy_mine(s)
    THEN [ship |-> [s EXCEPT !.respawning = 0,
                             !.was_respawning_until_this_frame = TRUE,
                             !.mine_limiter = MineDeployTime,
                             !.mines_remaining = IF @ # -1 THEN @ - 1 ELSE @,
                             !.mines_dropped = @ + 1],
          made |-> TRUE]
    ELSE [ship |-> s, made |-> FALSE]

\* a timer decremented by delta_time and clamped to exactly zero
Countdown(t) == IF t # 0 THEN (IF t - DeltaTime <= 0 THEN 0 ELSE t - DeltaTime) ELSE 0

\* the respawn timer part of Ship.update
RespawnTick(s) ==
    LET r == Countdown(s.respawning)
    IN [s EXCEPT !.respawning = r,
                 !.was_respawning_until_this_frame = (s.respawning # 0 /\ r = 0)]

\* Ship.update: the motion integration yields the position x and the speed;
\* then firing, mine deployment and the three timers
ShipUpdate(s, cmd, x, speed) ==
    LET moved == [s EXCEPT !.x = x, !.speed = speed, !.vx = speed]
        fired == IF cmd.fire THEN fire_bullet(moved)
                               ELSE [ship |-> moved, made |-> FALSE]
        mined == IF cmd.drop_mine THEN deploy_mine(fired.ship)
                                    ELSE [ship |-> fired.ship, made |-> FALSE]
        timed == RespawnTick(mined.ship)
    IN [ship |-> [timed EXCEPT !.fire_limiter = Countdown(@),
                               !.mine_limiter = Countdown(@)],
        new_bullet |-> fired.made,
        new_mine |-> mined.made]

\* ---- Mine ---------------------------------------------------------------
\* Mine.update that detonates only once the countdown is below zero
MineUpdate_BelowZero(m) ==
    LET c == m.countdown_timer - DeltaTime
    IN [m EXCEPT !.countdown_timer = c,
                 !.detonating = IF c < 0 THEN TRUE ELSE @]

\* Mine.update / Mine.detonate
MineUpdate(m) ==
    LET c == m.countdown_timer - DeltaTime
    IN [m EXCEPT !.countdown_timer = c,
                 !.detonating = IF c <= 0 THEN TRUE ELSE @]

\* ---- the frame loop of KesslerGame.run ----------------------------------
Indices(list) == 1..Len(list)

\* index pairs in the order of two nested loops, outer index first
PairSeq(n_outer, n_inner) ==
    [k \in 1..(n_outer * n_inner) |->
        <<((k - 1) \div n_inner) + 1, ((k - 1) % n_inner) + 1>>]

\* what a controller may return for its ship
Actions == [fire : BOOLEAN, drop_mine : BOOLEAN]

\* the ways in which a controller can break its contract: the ship_id that
\* does not match, and the checks on the four values it returns
Faults ==
    {"id_mismatch", "thrust_not_number", "thrust_not_finite",
     "turn_rate_not_number", "turn_rate_not_finite",
     "fire_not_bool", "drop_mine_not_bool"}

\* what the visit of one controller comes to: the first check that fails,
\* or the commands of a valid return
Returns ==
    {[fault |-> "none", fire |-> a.fire, drop_mine |-> a.drop_mine, write |-> 0] :
        a \in Actions}
       \cup {[fault |-> f, fire |-> FALSE, drop_mine |-> FALSE, write |-> 0] :
                f \in Faults}

\* the returns of a controller that honours its contract
Conforming == {r \in Returns : r.fault = "none"}

\* the returns of a controller that also stores a value of its own in the
\* "position" list of asteroid number write of the game state it was given
\* (0 for none)
Writing ==
    {[fault |-> "none", fire |-> a.fire, drop_mine |-> a.drop_mine, write |-> w] :
        a \in Actions, w \in {0} \cup DOMAIN asteroids}

\* the asteroid part of the GameState built for one controller:
\* asteroid.state.copy() is a new dict whose "position" entry is the
\* asteroid's own list _position
Snapshot(asts) == [a \in DOMAIN asts |-> asts[a].position]

\* a store through the "position" entry of the snapshot of asteroid w
WriteThrough(asts, w) ==
    IF w \in DOMAIN asts THEN [asts EXCEPT ![w].position = "written"] ELSE asts

\* ControllerLoop that also calls the controllers of the dead ships
RECURSIVE ControllerLoop_DeadToo(_, _, _)
ControllerLoop_DeadToo(ship_idx, ret, st) ==
    IF ship_idx > Len(ships) THEN st
    ELSE LET r == ret[ship_idx]
         IN IF r.fault = "id_mismatch"
            THEN [st EXCEPT !.raised = r.fault, !.raiser = ship_idx]
            ELSE IF r.fault # "none"
            THEN [st EXCEPT !.calls = Append(@, ship_idx),
                            !.seen = Append(@, Snapshot(st.asteroids)),
                            !.raised = r.fault, !.raiser = ship_idx]
            ELSE ControllerLoop_DeadToo(ship_idx + 1, ret,
                   [st EXCEPT !.calls = Append(@, ship_idx),
                              !.seen = Append(@, Snapshot(st.asteroids)),
                              !.asteroids = WriteThrough(@, r.write),
                              !.commands[ship_idx] =
                                  [fire |-> r.fire, drop_mine |-> r.drop_mine]])

\* ControllerLoop that goes on to the next ship after a failed check
RECURSIVE ControllerLoop_Skip(_, _, _)
ControllerLoop_Skip(ship_idx, ret, st) ==
    IF ship_idx > Len(ships) THEN st
    ELSE IF ~alive(ships[ship_idx]) THEN ControllerLoop_Skip(ship_idx + 1, ret, st)
    ELSE LET r == ret[ship_idx]
         IN IF r.fault = "id_mismatch"
            THEN ControllerLoop_Skip(ship_idx + 1, ret,
                   [st EXCEPT !.raised = r.fault, !.raiser = ship_idx])
            ELSE IF r.fault # "none"
            THEN ControllerLoop_Skip(ship_idx + 1, ret,
                   [st EXCEPT !.calls = Append(@, ship_idx),
                              !.seen = Append(@, Snapshot(st.asteroids)),
                              !.raised = r.fault, !.raiser = ship_idx])
            ELSE ControllerLoop_Skip(ship_idx + 1, ret,
                   [st EXCEPT !.calls = Append(@, ship_idx),
                              !.seen = Append(@, Snapshot(st.asteroids)),
                              !.asteroids = WriteThrough(@, r.write),
                              !.commands[ship_idx] =
                                  [fire |-> r.fire, drop_mine |-> r.drop_mine]])

\* the loop over the roster from ship_idx on: a ship that is alive has its
\* controller's ship_id checked, the controller called (st.calls), the
\* return validated and the commands stored; the first failed check raises
\* and ends the loop.  ret[i] is what the visit of controller i comes to.
RECURSIVE ControllerLoop(_, _, _)
ControllerLoop(ship_idx, ret, st) ==
    IF ship_idx > Len(ships) THEN st
    ELSE IF ~alive(ships[ship_idx]) THEN ControllerLoop(ship_idx + 1, ret, st)
    ELSE LET r == ret[ship_idx]
         IN IF r.fault = "id_mismatch"
            THEN [st EXCEPT !.raised = r.fault, !.raiser = ship_idx]
            ELSE IF r.fault # "none"
            THEN [st EXCEPT !.calls = Append(@, ship_idx),
                            !.seen = Append(@, Snapshot(st.asteroids)),
                            !.raised = r.fault, !.raiser = ship_idx]
            ELSE ControllerLoop(ship_idx + 1, ret,
                   [st EXCEPT !.calls = Append(@, ship_idx),
                              !.seen = Append(@, Snapshot(st.asteroids)),
                              !.asteroids = WriteThrough(@, r.write),
                              !.commands[ship_idx] =
                                  [fire |-> r.fire, drop_mine |-> r.drop_mine]])

\* controller phase with controllers whose returns are drawn from returns:
\* run() goes on to the physics update, or raises
ControllerPhase(returns) ==
    /\ pc = "controllers"
    /\ stop_reason = not_stopped
    /\ sim_frame < MaxFrames
    /\ \E ret \in [DOMAIN ships -> returns] :
          LET st == ControllerLoop(1, ret,
                       [commands |-> commands, asteroids |-> asteroids,
                        calls |-> <<>>, seen |-> <<>>,
                        raised |-> "none", raiser |-> 0])
          IN /\ commands' = st.commands
             /\ asteroids' = st.asteroids
             /\ log' = [log EXCEPT !.calls = st.calls, !.seen = st.seen,
                                   !.raised = st.raised, !.raiser = st.raiser]
             /\ pc' = IF st.raised = "none" THEN "update" ELSE "raised"
    /\ UNCHANGED <<controllers, ships, liveships, bullets, mines, sim_time, sim_frame,
                   stop_reason, scenario, time_limit, score,
                   collisions, ships_exempt_from_further_damage, cull_ships, game_state>>

\* controller phase: every roster ship that is alive gets its commands from
\* a controller that honours its contract
Controllers == ControllerPhase(Conforming)

\* controller phase with controllers that may break their contract
AnyControllers == ControllerPhase(Returns)

\* controller phase with controllers that store into what they are given
WritingControllers == ControllerPhase(Writing)

\* physics phase: bullets, mines, asteroids, then the live ships in list
\* order, each of which may append a bullet and a mine
Update ==
    /\ pc = "update"
    /\ \E kin \in [Range(liveships) -> Motions] :
         LET upd == [i \in Range(liveships) |->
                        ShipUpdate(ships[i], commands[i], kin[i][1], kin[i][2])]
             updated_mines == [k \in Indices(mines) |-> MineUpdate(mines[k])]
             shooters == SelectSeq(liveships, LAMBDA i : upd[i].new_bullet)
             miners == SelectSeq(liveships, LAMBDA i : upd[i].new_mine)
         IN /\ ships' = [i \in DOMAIN ships |->
                           IF i \in Range(liveships) THEN upd[i].ship ELSE ships[i]]
            /\ bullets' = [k \in Indices(bullets) |-> BulletUpdate(bullets[k])] \o
                   [k \in Indices(shooters) |->
                       LET s == upd[shooters[k]].ship
                           heading == kin[shooters[k]][3]
                       IN Bullet(s.x + ShipRadius * Cos(heading), heading, shooters[k])]
            /\ mines' = updated_mines \o
                   [k \in Indices(miners) |-> Mine(miners[k], sim_frame)]
            /\ log' = [log EXCEPT !.seen = <<>>, !.fired = Len(shooters), !.detonated =
                          {<<mines[k].owner, mines[k].born>> :
                              k \in {j \in Indices(mines) :
                                       /\ ~mines[j].detonating
                                       /\ updated_mines[j].detonating}}]
            /\ asteroids' = [a \in Indices(asteroids) |-> AsteroidUpdate(asteroids[a])]
    /\ commands' = [i \in DOMAIN ships |-> NoCommand]
    /\ pc' = "bullet_asteroid"
    /\ UNCHANGED <<controllers, liveships, sim_time, sim_frame, stop_reason,
                   scenario, time_limit, score, collisions,
                   ships_exempt_from_further_damage, cull_ships, game_state>>

\* the detection loop of the bullet-asteroid step: start[p] is what
\* collision_time_interval reports for pair p (NaN also stands for
\* circle_line_collision_continuous saying no)
RECURSIVE BulletAsteroidCandidates(_, _, _)
BulletAsteroidCandidates(pairs, start, acc) ==
    IF pairs = <<>> THEN acc
    ELSE LET p == Head(pairs)
             collision_time == Max(-DeltaTime, start[p])
         IN BulletAsteroidCandidates(Tail(pairs), start,
               IF isnan(start[p]) THEN acc
               ELSE InsertChronologically(acc, <<collision_time, p[1], p[2]>>))

InList(x, list) == \E k \in DOMAIN list : list[k] = x

\* BulletAsteroidResolve that only skips a candidate whose bullet is consumed
RECURSIVE BulletAsteroidResolve_BulletOnly(_, _, _)
BulletAsteroidResolve_BulletOnly(cands, k, st) ==
    IF k > Len(cands) THEN st
    ELSE LET bul_idx == cands[k][2]
             ast_idx == cands[k][3]
             owner == bullets[bul_idx].owner
         IN IF InList(bul_idx, st.bullets_to_cull)
            THEN BulletAsteroidResolve_BulletOnly(cands, k + 1, st)
            ELSE BulletAsteroidResolve_BulletOnly(cands, k + 1,
                   [ships |-> [st.ships EXCEPT ![owner].asteroids_hit = @ + 1,
                                               ![owner].bullets_hit = @ + 1],
                    new_asteroids |-> st.new_asteroids \o AsteroidDestruct(asteroids[ast_idx]),
                    bullets_to_cull |-> Append(st.bullets_to_cull, bul_idx),
                    asteroids_to_cull |-> Append(st.asteroids_to_cull, ast_idx),
                    resolved |-> Append(st.resolved, k)])

\* the resolution loop of the bullet-asteroid step over the candidates from
\* position k on; st carries the ships, the cull lists and new_asteroids
RECURSIVE BulletAsteroidResolve(_, _, _)
BulletAsteroidResolve(cands, k, st) ==
    IF k > Len(cands) THEN st
    ELSE LET bul_idx == cands[k][2]
             ast_idx == cands[k][3]
             owner == bullets[bul_idx].owner
         IN IF InList(bul_idx, st.bullets_to_cull) \/ InList(ast_idx, st.asteroids_to_cull)
            THEN BulletAsteroidResolve(cands, k + 1, st)
            ELSE BulletAsteroidResolve(cands, k + 1,
                   [ships |-> [st.ships EXCEPT ![owner].asteroids_hit = @ + 1,
                                               ![owner].bullets_hit = @ + 1],
                    new_asteroids |-> st.new_asteroids \o AsteroidDestruct(asteroids[ast_idx]),
                    bullets_to_cull |-> Append(st.bullets_to_cull, bul_idx),
                    asteroids_to_cull |-> Append(st.asteroids_to_cull, ast_idx),
                    resolved |-> Append(st.resolved, k)])

\* the cull of the bullets that left the map: off[b] is the off-map test
\* of bullet b
RECURSIVE CullOffMap(_, _, _)
CullOffMap(bul_idx, off, to_cull) ==
    IF bul_idx > Len(bullets) THEN to_cull
    ELSE CullOffMap(bul_idx + 1, off,
            IF ~InList(bul_idx, to_cull) /\ off[bul_idx]
            THEN Append(to_cull, bul_idx) ELSE to_cull)

BulletAsteroid ==
    /\ pc = "bullet_asteroid"
    /\ \E start \in [Indices(bullets) \X Indices(asteroids) -> RawTimes] :
         LET off == [b \in Indices(bullets) |-> OffMap(bullets[b])]
             cands == BulletAsteroidCandidates(
                         PairSeq(Len(bullets), Len(asteroids)), start, <<>>)
             st == BulletAsteroidResolve(cands, 1,
                      [ships |-> ships, new_asteroids |-> <<>>,
                       bullets_to_cull |-> <<>>, asteroids_to_cull |-> <<>>,
                       resolved |-> <<>>])
             bullets_to_cull == CullOffMap(1, off, st.bullets_to_cull)
         IN /\ collisions' = cands
            /\ ships' = st.ships
            /\ bullets' = CullAll(bullets, SortedReverse(bullets_to_cull))
            /\ asteroids' = CullAll(asteroids, SortedReverse(st.asteroids_to_cull))
                               \o st.new_asteroids
            /\ log' = [log EXCEPT !.resolved = st.resolved,
                                  !.spawned = Len(st.new_asteroids)]
    /\ pc' = "mine_blast"
    /\ UNCHANGED <<controllers, liveships, commands, mines, sim_time, sim_frame, stop_reason,
                   scenario, time_limit, score,
                   ships_exempt_from_further_damage, cull_ships, game_state>>

\* ClosestMine in which a later mine at the same distance takes the credit
RECURSIVE ClosestMine_LastWins(_, _, _, _, _)
ClosestMine_LastWins(sq, radius_sum, k, closest_mine, closest_sq_dist) ==
    IF k > Len(sq) THEN closest_mine
    ELSE IF sq[k] <= radius_sum * radius_sum /\ sq[k] <= closest_sq_dist
         THEN ClosestMine_LastWins(sq, radius_sum, k + 1, k, sq[k])
         ELSE ClosestMine_LastWins(sq, radius_sum, k + 1, closest_mine, closest_sq_dist)

\* the inner loop of the mine step over the detonating mines for one target:
\* the index of the closest mine in range, 0 for None.  sq[k] is the squared
\* distance of the target to detonating mine k.
RECURSIVE ClosestMine(_, _, _, _, _)
ClosestMine(sq, radius_sum, k, closest_mine, closest_sq_dist) ==
    IF k > Len(sq) THEN closest_mine
    ELSE IF sq[k] <= radius_sum * radius_sum /\ sq[k] < closest_sq_dist
         THEN ClosestMine(sq, radius_sum, k + 1, k, sq[k])
         ELSE ClosestMine(sq, radius_sum, k + 1, closest_mine, closest_sq_dist)

\* RemoveDetonated that steps past the mine swapped into the freed slot
RECURSIVE RemoveDetonated_SkipSwapped(_, _)
RemoveDetonated_SkipSwapped(list, mine_idx) ==
    IF mine_idx > Len(list) THEN list
    ELSE IF list[mine_idx].detonating
         THEN RemoveDetonated_SkipSwapped(SwapPop(list, mine_idx), mine_idx + 1)
         ELSE RemoveDetonated_SkipSwapped(list, mine_idx + 1)

\* the while loop that removes the detonating mines by swap-and-pop
RECURSIVE RemoveDetonated(_, _)
RemoveDetonated(list, mine_idx) ==
    IF mine_idx > Len(list) THEN list
    ELSE IF list[mine_idx].detonating
         THEN RemoveDetonated(SwapPop(list, mine_idx), mine_idx)
         ELSE RemoveDetonated(list, mine_idx + 1)

\* asteroid loop of the mine step: credit[a] is the closest mine of asteroid a
RECURSIVE MineAsteroids(_, _, _, _)
MineAsteroids(ast_idx, credit, detonating_mines, st) ==
    IF ast_idx > Len(asteroids) THEN st
    ELSE IF credit[ast_idx] = 0
         THEN MineAsteroids(ast_idx + 1, credit, detonating_mines, st)
         ELSE LET owner == detonating_mines[credit[ast_idx]].owner
              IN MineAsteroids(ast_idx + 1, credit, detonating_mines,
                   [ships |-> [st.ships EXCEPT ![owner].asteroids_hit = @ + 1,
                                               ![owner].mines_hit = @ + 1],
                    new_asteroids |-> st.new_asteroids \o AsteroidDestruct(asteroids[ast_idx]),
                    asteroids_to_cull |-> Append(st.asteroids_to_cull, ast_idx)])

\* MineShips that also damages respawning ships
RECURSIVE MineShips_NoRespawnTest(_, _, _)
MineShips_NoRespawnTest(k, hit, st) ==
    IF k > Len(liveships) THEN st
    ELSE LET i == liveships[k]
         IN IF ~alive(st.ships[i])
            THEN MineShips_NoRespawnTest(k + 1, hit, st)
            ELSE MineShips_NoRespawnTest(k + 1, hit,
                   [ships |-> [st.ships EXCEPT ![i] = ShipDestruct(@)],
                    destructs |-> Append(st.destructs, Destructed(i, st.ships[i], "mine")),
                    cull_ships |-> TRUE])

\* ship loop of the mine step over the live-ship list from position k on:
\* hit[i] says that roster ship i has a closest mine in range
RECURSIVE MineShips(_, _, _)
MineShips(k, hit, st) ==
    IF k > Len(liveships) THEN st
    ELSE LET i == liveships[k]
         IN IF is_respawning(st.ships[i]) \/ ~hit[i]
            THEN MineShips(k + 1, hit, st)
            ELSE MineShips(k + 1, hit,
                   [ships |-> [st.ships EXCEPT ![i] = ShipDestruct(@)],
                    destructs |-> Append(st.destructs, Destructed(i, st.ships[i], "mine")),
                    cull_ships |-> TRUE])

MineBlast ==
    /\ pc = "mine_blast"
    /\ LET detonating_mines == SelectSeq(mines, LAMBDA m : m.detonating)
           exposed == {i \in Range(liveships) : ~is_respawning(ships[i])}
       IN IF detonating_mines = <<>>
          THEN /\ cull_ships' = FALSE
               /\ log' = [log EXCEPT !.resolved = <<>>]
               /\ UNCHANGED <<controllers, ships, asteroids, mines>>
          ELSE \E dist_ast \in [Indices(asteroids) \X Indices(detonating_mines) -> Dists],
                  dist_ship \in [exposed \X Indices(detonating_mines) -> Dists] :
                 LET sq_ast == [a \in Indices(asteroids) |->
                                  [k \in Indices(detonating_mines) |->
                                      dist_ast[<<a, k>>] * dist_ast[<<a, k>>]]]
                     credit == [a \in Indices(asteroids) |->
                                  ClosestMine(sq_ast[a],
                                      BlastRadius + AsteroidRadius(asteroids[a].size),
                                      1, 0, Inf)]
                     hit == [i \in exposed |->
                                ClosestMine([k \in Indices(detonating_mines) |->
                                                dist_ship[<<i, k>>] * dist_ship[<<i, k>>]],
                                            BlastRadius + ShipRadius, 1, 0, Inf) # 0]
                     sa == MineAsteroids(1, credit, detonating_mines,
                              [ships |-> ships, new_asteroids |-> <<>>,
                               asteroids_to_cull |-> <<>>])
                     ss == MineShips(1, [i \in Range(liveships) |-> i \in exposed /\ hit[i]],
                              [ships |-> sa.ships, destructs |-> log.destructs,
                               cull_ships |-> FALSE])
                 IN /\ ships' = ss.ships
                    /\ cull_ships' = ss.cull_ships
                    /\ asteroids' = CullAll(asteroids, Reverse(sa.asteroids_to_cull))
                                       \o sa.new_asteroids
                    /\ mines' = RemoveDetonated(mines, 1)
                    /\ log' = [log EXCEPT !.resolved = <<>>,
                                          !.destructs = ss.destructs,
                                          !.detonating_mines = detonating_mines,
                                          !.sq_dists = sq_ast,
                                          !.credits = credit,
                                          !.before = [ships |-> ships,
                                                      asteroids |-> asteroids,
                                                      mines |-> mines]]
    /\ collisions' = <<>>
    /\ pc' = "ship_asteroid"
    /\ UNCHANGED <<controllers, liveships, commands, bullets, sim_time, sim_frame, stop_reason,
                   scenario, time_limit, score,
                   ships_exempt_from_further_damage, game_state>>

\* candidates of a ship step: query[p] is the collision time reported for
\* pair p, NaN for none
RECURSIVE ShipCandidates(_, _, _)
ShipCandidates(pairs, query, acc) ==
    IF pairs = <<>> THEN acc
    ELSE LET p == Head(pairs)
         IN ShipCandidates(Tail(pairs), query,
               IF isnan(query[p]) THEN acc
               ELSE InsertChronologically(acc, <<query[p], p[1], p[2]>>))

\* a ship of the live list that the ship steps examine
Vulnerable(k) == alive(ships[liveships[k]]) /\ ~is_respawning(ships[liveships[k]])

JustRespawned(k) == ships[liveships[k]].was_respawning_until_this_frame

\* ShipAsteroidResolve that does not exempt a ship it has damaged
RECURSIVE ShipAsteroidResolve_NoExempt(_, _, _)
ShipAsteroidResolve_NoExempt(cands, k, st) ==
    IF k > Len(cands) THEN st
    ELSE LET ship_idx == cands[k][2]
             ast_idx == cands[k][3]
             i == liveships[ship_idx]
         IN IF InList(ast_idx, st.asteroids_to_cull) \/ ~alive(st.ships[i])
            THEN ShipAsteroidResolve_NoExempt(cands, k + 1, st)
            ELSE ShipAsteroidResolve_NoExempt(cands, k + 1,
                   [ships |-> [st.ships EXCEPT
                                  ![i] = ShipDestruct([@ EXCEPT !.asteroids_hit = @ + 1])],
                    new_asteroids |-> st.new_asteroids \o AsteroidDestruct(asteroids[ast_idx]),
                    exempt |-> st.exempt,
                    asteroids_to_cull |-> Append(st.asteroids_to_cull, ast_idx),
                    destructs |-> Append(st.destructs,
                                         Destructed(i, st.ships[i], "ship_asteroid")),
                    resolved |-> Append(st.resolved, k)])

\* the resolution loop of the ship-asteroid step
RECURSIVE ShipAsteroidResolve(_, _, _)
ShipAsteroidResolve(cands, k, st) ==
    IF k > Len(cands) THEN st
    ELSE LET ship_idx == cands[k][2]
             ast_idx == cands[k][3]
             i == liveships[ship_idx]
         IN IF InList(ship_idx, st.exempt) \/ InList(ast_idx, st.asteroids_to_cull)
            THEN ShipAsteroidResolve(cands, k + 1, st)
            ELSE ShipAsteroidResolve(cands, k + 1,
                   [ships |-> [st.ships EXCEPT
                                  ![i] = ShipDestruct([@ EXCEPT !.asteroids_hit = @ + 1])],
                    new_asteroids |-> st.new_asteroids \o AsteroidDestruct(asteroids[ast_idx]),
                    exempt |-> Append(st.exempt, ship_idx),
                    asteroids_to_cull |-> Append(st.asteroids_to_cull, ast_idx),
                    destructs |-> Append(st.destructs,
                                         Destructed(i, st.ships[i], "ship_asteroid")),
                    resolved |-> Append(st.resolved, k)])

ShipAsteroid ==
    /\ pc = "ship_asteroid"
    /\ LET pairs == SelectSeq(PairSeq(Len(liveships), Len(asteroids)),
                              LAMBDA p : Vulnerable(p[1]))
       IN \E query \in {q \in [Range(pairs) -> CollisionTimes] :
                           \A p \in Range(pairs) :
                              JustRespawned(p[1]) => q[p] \in {0, NaN}} :
            LET cands == ShipCandidates(pairs, query, <<>>)
                st == ShipAsteroidResolve(cands, 1,
                         [ships |-> ships, new_asteroids |-> <<>>, exempt |-> <<>>,
                          asteroids_to_cull |-> <<>>, destructs |-> log.destructs,
                          resolved |-> <<>>])
            IN /\ collisions' = cands
               /\ ships' = st.ships
               /\ ships_exempt_from_further_damage' = st.exempt
               /\ asteroids' = CullAll(asteroids, SortedReverse(st.asteroids_to_cull))
                                  \o st.new_asteroids
               /\ cull_ships' = (cull_ships \/ st.resolved # <<>>)
               /\ log' = [log EXCEPT !.destructs = st.destructs,
                                     !.resolved = st.resolved]
    /\ pc' = "ship_ship"
    /\ UNCHANGED <<controllers, liveships, commands, bullets, mines, sim_time, sim_frame, stop_reason,
                   scenario, time_limit, score, game_state>>

\* ShipShipResolve that destructs only the first ship of a pair
RECURSIVE ShipShipResolve_FirstOnly(_, _, _)
ShipShipResolve_FirstOnly(cands, k, st) ==
    IF k > Len(cands) THEN st
    ELSE LET ship1_idx == cands[k][2]
             ship2_idx == cands[k][3]
             i1 == liveships[ship1_idx]
         IN IF InList(ship1_idx, st.exempt) \/ InList(ship2_idx, st.exempt)
            THEN ShipShipResolve_FirstOnly(cands, k + 1, st)
            ELSE ShipShipResolve_FirstOnly(cands, k + 1,
                   [ships |-> [st.ships EXCEPT ![i1] = ShipDestruct(@)],
                    exempt |-> st.exempt \o <<ship1_idx, ship2_idx>>,
                    destructs |-> Append(st.destructs,
                                         Destructed(i1, st.ships[i1], "ship_ship")),
                    resolved |-> Append(st.resolved, k)])

\* the resolution loop of the ship-ship step
RECURSIVE ShipShipResolve(_, _, _)
ShipShipResolve(cands, k, st) ==
    IF k > Len(cands) THEN st
    ELSE LET ship1_idx == cands[k][2]
             ship2_idx == cands[k][3]
             i1 == liveships[ship1_idx]
             i2 == liveships[ship2_idx]
         IN IF InList(ship1_idx, st.exempt) \/ InList(ship2_idx, st.exempt)
            THEN ShipShipResolve(cands, k + 1, st)
            ELSE ShipShipResolve(cands, k + 1,
                   [ships |-> [st.ships EXCEPT ![i1] = ShipDestruct(@),
                                               ![i2] = ShipDestruct(@)],
                    exempt |-> st.exempt \o <<ship1_idx, ship2_idx>>,
                    destructs |-> st.destructs \o
                                    <<Destructed(i1, st.ships[i1], "ship_ship"),
                                      Destructed(i2, st.ships[i2], "ship_ship")>>,
                    resolved |-> Append(st.resolved, k)])

ShipShip ==
    /\ pc = "ship_ship"
    /\ LET pairs == SelectSeq(PairSeq(Len(liveships), Len(liveships)),
                              LAMBDA p : /\ p[1] < p[2]
                                         /\ Vulnerable(p[1]) /\ Vulnerable(p[2]))
       IN \E query \in {q \in [Range(pairs) -> CollisionTimes] :
                           \A p \in Range(pairs) :
                              (JustRespawned(p[1]) \/ JustRespawned(p[2]))
                                 => q[p] \in {0, NaN}} :
            LET cands == ShipCandidates(pairs, query, <<>>)
                st == ShipShipResolve(cands, 1,
                         [ships |-> ships, exempt |-> ships_exempt_from_further_damage,
                          destructs |-> log.destructs, resolved |-> <<>>])
            IN /\ collisions' = cands
               /\ ships' = st.ships
               /\ ships_exempt_from_further_damage' = st.exempt
               /\ cull_ships' = (cull_ships \/ st.resolved # <<>>)
               /\ log' = [log EXCEPT !.destructs = st.destructs,
                                     !.resolved = st.resolved]
    /\ pc' = "frame_end"
    /\ UNCHANGED <<controllers, liveships, commands, asteroids, bullets, mines, sim_time, sim_frame,
                   stop_reason, scenario, time_limit, score, game_state>>

\* StopCheck with the live-ship test ahead of the asteroid test
StopCheck_ShipsFirst(live, clock) ==
    IF live = <<>> /\ ~(Len(mines) > 0 \/ Len(bullets) > 0) THEN no_ships
    ELSE IF asteroids = <<>> THEN no_asteroids
    ELSE IF /\ ~(SumSeq([k \in Indices(live) |-> ships[live[k]].bullets_remaining]) > 0)
            /\ SumSeq([k \in Indices(live) |-> ships[live[k]].mines_remaining]) = 0
            /\ ~(Len(bullets) > 0 \/ Len(mines) > 0)
            /\ scenario.stop_if_no_ammo
         THEN out_of_bullets
    ELSE IF clock > time_limit THEN time_expired
    ELSE not_stopped

\* StopCheck that does not wait for the mines
StopCheck_NoMineWait(live, clock) ==
    IF asteroids = <<>> THEN no_asteroids
    ELSE IF live = <<>> /\ ~(Len(bullets) > 0) THEN no_ships
    ELSE IF /\ ~(SumSeq([k \in Indices(live) |-> ships[live[k]].bullets_remaining]) > 0)
            /\ SumSeq([k \in Indices(live) |-> ships[live[k]].mines_remaining]) = 0
            /\ ~(Len(bullets) > 0 \/ Len(mines) > 0)
            /\ scenario.stop_if_no_ammo
         THEN out_of_bullets
    ELSE IF clock > time_limit THEN time_expired
    ELSE not_stopped

\* StopCheck that expires when the clock reaches the limit
StopCheck_AtLimit(live, clock) ==
    IF asteroids = <<>> THEN no_asteroids
    ELSE IF live = <<>> /\ ~(Len(mines) > 0 \/ Len(bullets) > 0) THEN no_ships
    ELSE IF /\ ~(SumSeq([k \in Indices(live) |-> ships[live[k]].bullets_remaining]) > 0)
            /\ SumSeq([k \in Indices(live) |-> ships[live[k]].mines_remaining]) = 0
            /\ ~(Len(bullets) > 0 \/ Len(mines) > 0)
            /\ scenario.stop_if_no_ammo
         THEN out_of_bullets
    ELSE IF clock >= time_limit THEN time_expired
    ELSE not_stopped

\* the stop conditions, checked in this order at the end of a frame
StopCheck(live, clock) ==
    IF asteroids = <<>> THEN no_asteroids
    ELSE IF live = <<>> /\ ~(Len(mines) > 0 \/ Len(bullets) > 0) THEN no_ships
    ELSE IF /\ ~(SumSeq([k \in Indices(live) |-> ships[live[k]].bullets_remaining]) > 0)
            /\ SumSeq([k \in Indices(live) |-> ships[live[k]].mines_remaining]) = 0
            /\ ~(Len(bullets) > 0 \/ Len(mines) > 0)
            /\ scenario.stop_if_no_ammo
         THEN out_of_bullets
    ELSE IF clock > time_limit THEN time_expired
    ELSE not_stopped

\* CullShips that trusts the damage flag only when the last step set it
CullShips_LastStepOnly(live, damaged) ==
    LET new_liveships == SelectSeq(live, LAMBDA i : alive(ships[i]))
    IN IF damaged /\ log.resolved # <<>> /\ Len(live) # Len(new_liveships)
       THEN new_liveships ELSE live

\* the cull of the live list after the collision steps, under cull_ships
CullShips(live, damaged) ==
    LET new_liveships == SelectSeq(live, LAMBDA i : alive(ships[i]))
    IN IF damaged /\ Len(live) # Len(new_liveships) THEN new_liveships ELSE live

\* end of the frame: cull the dead ships from the live list, advance the
\* clock, decide the stop reason
FrameEnd ==
    /\ pc = "frame_end"
    /\ liveships' = CullShips(liveships, cull_ships)
    /\ sim_time' = sim_time + DeltaTime
    /\ sim_frame' = sim_frame + 1
    /\ stop_reason' = StopCheck(liveships', sim_time')
    /\ pc' = IF stop_reason' = not_stopped THEN "controllers" ELSE "done"
    /\ collisions' = <<>>
    /\ ships_exempt_from_further_damage' = <<>>
    /\ cull_ships' = FALSE
    /\ log' = EmptyLog
    /\ score' = ScoreUpdate(ships)
    /\ UNCHANGED <<controllers, ships, asteroids, bullets, mines, scenario, time_limit, commands,
                   game_state>>

Next ==
    \/ Controllers
    \/ Update
    \/ BulletAsteroid
    \/ MineBlast
    \/ ShipAsteroid
    \/ ShipShip
    \/ FrameEnd

Spec == Init /\ [][Next]_vars

\* the runs with controllers of any kind
AnyNext ==
    \/ AnyControllers
    \/ Update
    \/ BulletAsteroid
    \/ MineBlast
    \/ ShipAsteroid
    \/ ShipShip
    \/ FrameEnd

AnySpec == Init /\ [][AnyNext]_vars

\* the runs of the scenarios with a ship with unlimited mines
MixedMineSpec == InitOf(MixedMineScenarios) /\ [][Next]_vars

\* the runs with controllers that store into what they are given
WritingNext ==
    \/ WritingControllers
    \/ Update
    \/ BulletAsteroid
    \/ MineBlast
    \/ ShipAsteroid
    \/ ShipShip
    \/ FrameEnd

WritingSpec == Init /\ [][WritingNext]_vars

\* the positions of run() in a frame, and after the loop
Phases ==
    {"controllers", "update", "bullet_asteroid", "mine_blast", "ship_asteroid",
     "ship_ship", "frame_end", "done", "raised"}

\* the loop of run() has a step to take: it has not left the while loop, and
\* the model has not cut the run at its frame bound
Running ==
    pc \notin {"done", "raised"} /\ ~(pc = "controllers" /\ sim_frame >= MaxFrames)

\* a step of the loop as seen from its position alone: every step of Next
\* moves pc, and Next is enabled exactly in the Running states
LoopStep == Running /\ pc' \in Phases \ {pc}

\* with fairness: the loop of run() keeps executing while it can (every
\* controller call returns)
FairSpec == Spec /\ WF_pc(LoopStep)

\* Scenarios without a time limit in which the last ship can die while
\* asteroids remain and its bullets or its mine are still in play
LastShipScenarios ==
    { [lives |-> <<1>>, teams |-> <<1>>, mines_remaining |-> <<1>>, bullet_limit |-> 1,
       sizes |-> <<2>>, time_limit |-> 0, stop_if_no_ammo |-> FALSE],
      [lives |-> <<1>>, teams |-> <<1>>, mines_remaining |-> <<1>>, bullet_limit |-> 1,
       sizes |-> <<1, 1>>, time_limit |-> 0, stop_if_no_ammo |-> TRUE] }

\* the runs of those scenarios, the loop executing while it can
LastShipSpec == InitOf(LastShipScenarios) /\ [][Next]_vars /\ WF_pc(LoopStep)

\* ---- properties ---------------------------------------------------------
\* the frame has ended: the stop conditions have just been evaluated
FrameEnded == pc \in {"controllers", "done"} /\ sim_frame > 0

NoShipsLeft == liveships = <<>> /\ mines = <<>> /\ bullets = <<>>

\* every live ship has neither bullets nor mines left, nothing is in flight,
\* and the scenario asks to stop then
OutOfAmmo ==
    /\ scenario.stop_if_no_ammo
    /\ mines = <<>> /\ bullets = <<>>
    /\ \A k \in Indices(liveships) :
          /\ ships[liveships[k]].bullets_remaining = 0
          /\ ships[liveships[k]].mines_remaining = 0

\* C1: at the end of every frame the stop reason is no_asteroids if no
\* asteroid is left, otherwise no_ships if no live ship, mine or bullet is
\* left, otherwise out_of_bullets if all live ships are out of ammo,
\* otherwise time_expired if the advanced clock is > the time limit,
\* otherwise not_stopped; the loop ends exactly when a reason is set.
C1_StopPriority ==
    /\ FrameEnded =>
          stop_reason = IF asteroids = <<>> THEN no_asteroids
                        ELSE IF NoShipsLeft THEN no_ships
                        ELSE IF OutOfAmmo THEN out_of_bullets
                        ELSE IF sim_time > time_limit THEN time_expired
                        ELSE not_stopped
    /\ ~FrameEnded => stop_reason = not_stopped
    /\ pc = "done" <=> stop_reason # not_stopped

\* a frame ends with no asteroid, no live ship (the last one died in this
\* frame) and the clock past the limit, and the reason is no_asteroids
C1_Witness ==
    /\ pc = "done" /\ stop_reason = no_asteroids
    /\ liveships = <<>> /\ sim_time > time_limit
    /\ \E i \in DOMAIN ships : ships[i].lives = 0 /\ ships[i].respawning = RespawnTime

\* C2: the run stops with no_ships only when the live-ship list, the bullet
\* list and the mine list are all empty and an asteroid remains.
C2_NoShipsWaits ==
    stop_reason = no_ships =>
        /\ liveships = <<>> /\ bullets = <<>> /\ mines = <<>>
        /\ asteroids # <<>>

\* the run stopped with no_ships after a mine and a bullet had been in play
C2_Witness ==
    /\ stop_reason = no_ships
    /\ \E i \in DOMAIN ships : ships[i].mines_dropped > 0
    /\ \E i \in DOMAIN ships : ships[i].bullets_shot > 0

\* the candidates at positions j and k share a member
Share(j, k) ==
    collisions[j][2] = collisions[k][2] \/ collisions[j][3] = collisions[k][3]

Resolved(k) == InList(k, log.resolved)

\* C3: in the bullet-asteroid step and in the ship-asteroid step the
\* candidates are in ascending collision time and are resolved in that order;
\* a candidate is resolved if and only if no candidate resolved before it in
\* the step has consumed one of its two members; hence every member takes
\* part in at most one resolved collision and every skipped candidate shares
\* a member with a resolved candidate of earlier-or-equal time.
C3_ChronologicalResolution ==
    pc \in {"mine_blast", "ship_ship"} =>
        /\ \A j, k \in Indices(collisions) :
              j < k => collisions[j][1] <= collisions[k][1]
        /\ \A j, k \in Indices(log.resolved) :
              j < k => log.resolved[j] < log.resolved[k]
        /\ \A k \in Indices(collisions) :
              Resolved(k) <=> ~\E j \in 1..(k - 1) : Resolved(j) /\ Share(j, k)
        /\ \A j, k \in Indices(collisions) :
              (Resolved(j) /\ Resolved(k) /\ j # k) =>
                 /\ collisions[j][2] # collisions[k][2]
                 /\ collisions[j][3] # collisions[k][3]
        /\ \A k \in Indices(collisions) :
              ~Resolved(k) =>
                 \E j \in Indices(collisions) :
                    /\ Resolved(j) /\ Share(j, k)
                    /\ collisions[j][1] <= collisions[k][1]

\* the bullet-asteroid step has resolved an early candidate and skipped a
\* later one that shares a member with it
C3_Witness ==
    /\ pc = "mine_blast"
    /\ \E j, k \in Indices(collisions) :
          /\ collisions[j][1] < collisions[k][1]
          /\ Resolved(j) /\ ~Resolved(k) /\ Share(j, k)

\* C4: every call of Ship.destruct in the mine-blast, ship-asteroid and
\* ship-ship steps is on a ship whose is_respawning is false at the call.
C4_NoDestructWhileRespawning ==
    \A k \in Indices(log.destructs) : ~log.destructs[k].is_respawning

\* a ship that died before, whose invulnerability has ended, is destructed
\* a second time
C4_Witness ==
    \E k \in Indices(log.destructs) :
        log.destructs[k].deaths = 1 /\ ~log.destructs[k].is_respawning

\* C5: lives >= 0 and lives + deaths = initial lives for every roster ship;
\* the roster keeps its ships; lives changes only by a call of destruct, by
\* exactly -1 (and deaths by +1); a destructed ship stays where it died with
\* speed and velocity zero and a full invulnerability timer.
C5_LivesAccounting ==
    /\ [](/\ Len(ships) = Len(scenario.lives)
          /\ \A i \in DOMAIN ships :
                /\ ships[i].lives >= 0
                /\ ships[i].lives + ships[i].deaths = scenario.lives[i])
    /\ [](\A k \in Indices(log.destructs) :
             LET e == log.destructs[k]
                 s == ships[e.ship]
             IN /\ s.lives = e.lives - 1 /\ s.deaths = e.deaths + 1
                /\ s.x = e.x /\ s.speed = 0 /\ s.vx = 0
                /\ s.respawning = RespawnTime)
    /\ [][\A i \in DOMAIN ships :
             /\ ships'[i].lives <= ships[i].lives
             /\ ships'[i].lives # ships[i].lives =>
                   /\ ships'[i].lives = ships[i].lives - 1
                   /\ ships'[i].deaths = ships[i].deaths + 1
                   /\ \E k \in Indices(log'.destructs) :
                         /\ k > Len(log.destructs)
                         /\ log'.destructs[k].ship = i]_vars

\* a ship with two lives has died twice, the second time away from x = 0
C5_Witness ==
    \E i \in DOMAIN ships :
        /\ scenario.lives[i] = 2 /\ ships[i].lives = 0 /\ ships[i].deaths = 2
        /\ ships[i].x = 100 /\ ships[i].respawning = RespawnTime

\* asteroid a of the list the mine step started with is within blast range
\* of detonating mine k
InBlastRange(a, k) ==
    LET radius_sum == BlastRadius + AsteroidRadius(log.before.asteroids[a].size)
    IN log.sq_dists[a][k] <= radius_sum * radius_sum

\* k is the nearest detonating mine in range of asteroid a, the first one in
\* list order among the nearest
NearestFirst(a, k) ==
    /\ InBlastRange(a, k)
    /\ \A j \in Indices(log.detonating_mines) :
          InBlastRange(a, j) =>
             \/ log.sq_dists[a][k] < log.sq_dists[a][j]
             \/ log.sq_dists[a][k] = log.sq_dists[a][j] /\ k <= j

\* the asteroids the mine step credited to a mine of roster ship i
CreditedTo(i) ==
    {a \in Indices(log.before.asteroids) :
        /\ log.credits[a] # 0
        /\ log.detonating_mines[log.credits[a]].owner = i}

\* C6: after a mine step with detonating mines, every asteroid in range of
\* at least one detonating mine is credited to exactly one mine, the nearest
\* by squared distance and among equally near ones the first of the mine
\* list; an asteroid in range of none is credited to none; the owner's
\* asteroids_hit and mines_hit rise by one per credited asteroid, and each
\* credited asteroid is destroyed once (replaced by its children).
C6_NearestMineCredit ==
    (pc = "ship_asteroid" /\ log.detonating_mines # <<>>) =>
        /\ \A a \in Indices(log.before.asteroids) :
              IF \E k \in Indices(log.detonating_mines) : InBlastRange(a, k)
              THEN log.credits[a] # 0 /\ NearestFirst(a, log.credits[a])
              ELSE log.credits[a] = 0
        /\ \A i \in DOMAIN ships :
              /\ ships[i].asteroids_hit =
                    log.before.ships[i].asteroids_hit + Cardinality(CreditedTo(i))
              /\ ships[i].mines_hit =
                    log.before.ships[i].mines_hit + Cardinality(CreditedTo(i))
        /\ LET hit == {a \in Indices(log.before.asteroids) : log.credits[a] # 0}
               split == {a \in hit : log.before.asteroids[a].size # 1}
           IN Len(asteroids) = Len(log.before.asteroids) - Cardinality(hit)
                                  + 3 * Cardinality(split)

\* two mines detonate at the same distance of an asteroid, both in range,
\* and the first of the list got the credit
C6_Witness ==
    /\ pc = "ship_asteroid"
    /\ Len(log.detonating_mines) >= 2
    /\ \E a \in Indices(log.before.asteroids) :
          /\ InBlastRange(a, 1) /\ InBlastRange(a, 2)
          /\ log.sq_dists[a][1] = log.sq_dists[a][2]
          /\ log.credits[a] = 1
          /\ log.detonating_mines[1].owner # log.detonating_mines[2].owner

MineUid(m) == <<m.owner, m.born>>

\* the statement of C7 as claimed: at the end of the frame in which its
\* countdown expired a mine is still in the live list, detonating, and the
\* mines flagged in an earlier frame are gone
C7_RemovedNextFrame ==
    pc = "frame_end" =>
        /\ \A u \in log.detonated :
              \E k \in Indices(mines) : MineUid(mines[k]) = u /\ mines[k].detonating
        /\ \A k \in Indices(mines) :
              mines[k].detonating => MineUid(mines[k]) \in log.detonated

\* C7 (amended): a mine is flagged detonating by the update of the frame in
\* which its countdown reaches zero and is removed by the mine step of that
\* same frame, after the blast: a detonating mine is in the live list only
\* between the update and the mine step, and from the mine step on no mine
\* whose countdown expired in this frame is in the list.
C7_RemovedSameFrame ==
    /\ pc \in {"bullet_asteroid", "mine_blast"} =>
          \A k \in Indices(mines) :
             /\ mines[k].detonating <=> mines[k].countdown_timer <= 0
             /\ mines[k].detonating <=> MineUid(mines[k]) \in log.detonated
    /\ pc \notin {"bullet_asteroid", "mine_blast"} =>
          \A k \in Indices(mines) :
             /\ ~mines[k].detonating /\ mines[k].countdown_timer > 0
             /\ MineUid(mines[k]) \notin log.detonated

\* a frame ends in which one mine has detonated and gone while a younger
\* mine stays armed
C7_Witness ==
    /\ pc = "frame_end"
    /\ log.detonated # {}
    /\ mines # <<>>

\* the live-list positions of the two ships of ship-ship candidate k
Pair(k) == {collisions[k][2], collisions[k][3]}

\* the number of calls of destruct the ship-ship step made on the ship at
\* position p of the live list
ShipShipDestructs(p) ==
    Cardinality({d \in Indices(log.destructs) :
                    /\ log.destructs[d].step = "ship_ship"
                    /\ log.destructs[d].ship = liveships[p]})

\* the statement of C8 as claimed: both ships of every detected pair are
\* destructed in the frame
C8_EveryPairBothDestructed ==
    pc = "frame_end" =>
        \A k \in Indices(collisions) :
           \A p \in Pair(k) : ShipShipDestructs(p) = 1

\* C8 (amended): the detected pairs are resolved in ascending collision
\* time; a pair is resolved if and only if neither of its ships was
\* destructed by a pair resolved before it in the step; both ships of a
\* resolved pair are destructed and lose exactly one life; no ship is
\* destructed twice by the step; every detected pair has at least one ship
\* destructed.
C8_ResolvedPairsBothDestructed ==
    pc = "frame_end" =>
        /\ \A j, k \in Indices(collisions) :
              j < k => collisions[j][1] <= collisions[k][1]
        /\ \A k \in Indices(collisions) :
              Resolved(k) <=>
                 ~\E j \in 1..(k - 1) : Resolved(j) /\ Pair(j) \cap Pair(k) # {}
        /\ \A k \in Indices(collisions) :
              Resolved(k) =>
                 \A p \in Pair(k) :
                    /\ ShipShipDestructs(p) = 1
                    /\ \E d \in Indices(log.destructs) :
                          /\ log.destructs[d].step = "ship_ship"
                          /\ log.destructs[d].ship = liveships[p]
                          /\ ships[liveships[p]].lives = log.destructs[d].lives - 1
        /\ \A p \in Indices(liveships) : ShipShipDestructs(p) <= 1
        /\ \A k \in Indices(collisions) :
              \E p \in Pair(k) : ShipShipDestructs(p) = 1

\* three ships collide pairwise in one frame: the earliest pair is resolved,
\* the third ship is in two skipped pairs and keeps its life
C8_Witness ==
    /\ pc = "frame_end"
    /\ Len(collisions) = 3
    /\ Len(log.resolved) = 1
    /\ \E p \in Indices(liveships) :
          /\ ShipShipDestructs(p) = 0
          /\ Cardinality({k \in Indices(collisions) : p \in Pair(k)}) = 2

\* C9: the asteroids_hit of all roster ships plus count_asteroids(size) of
\* all live asteroids equals the scenario's max_asteroids, after every step
\* and so at the end of every frame; when the run stops with no_asteroids
\* the asteroids_hit of all ships add up to max_asteroids.
C9_AsteroidConservation ==
    /\ SumSeq([i \in DOMAIN ships |-> ships[i].asteroids_hit])
          + SumSeq([a \in DOMAIN asteroids |-> count_asteroids(asteroids[a].size)])
       = max_asteroids(scenario)
    /\ stop_reason = no_asteroids =>
          SumSeq([i \in DOMAIN ships |-> ships[i].asteroids_hit])
             = max_asteroids(scenario)

\* a scenario with one asteroid of size 2 is cleared: four asteroids hit
C9_Witness ==
    /\ stop_reason = no_asteroids
    /\ max_asteroids(scenario) = 4
    /\ SumSeq([i \in DOMAIN ships |-> ships[i].asteroids_hit]) = 4

\* C10: with a finite time limit the run reaches a stop reason; the loop
\* goes on only while the advanced clock (frames executed x DeltaTime) is
\* <= the limit, so it stops at the latest at the end of the first frame
\* whose advanced clock is > the limit; time_expired is only set at a frame
\* end whose advanced clock is > the limit.
C10_Termination ==
    /\ [](time_limit # Inf => <>(stop_reason # not_stopped))
    /\ [](sim_time = sim_frame * DeltaTime)
    /\ []((time_limit # Inf /\ stop_reason = not_stopped) => sim_time <= time_limit)
    /\ [](stop_reason = time_expired => sim_time > time_limit)

\* a run ended by the clock at the end of the first frame past the limit
C10_Witness ==
    /\ stop_reason = time_expired
    /\ sim_time > time_limit
    /\ sim_time - DeltaTime <= time_limit

\* the roster ships with lives > 0, in roster order
AliveRoster == SelectSeq([i \in DOMAIN ships |-> i], LAMBDA i : ships[i].lives > 0)

\* C11: the controller phase calls the controller of every ship with
\* lives > 0 exactly once, in roster order, and calls no controller of a ship
\* with lives = 0; it updates no bullet, mine, asteroid or ship; no
\* controller is called in the rest of the frame; lives never rise, so a
\* controller of a ship at lives = 0 is never called again.  (A phase that
\* ends in a raise has called the ships up to the offending one.)
C11_ControllersOncePerFrame ==
    [][/\ pc = "controllers" =>
             /\ UNCHANGED <<controllers, ships, liveships, asteroids, bullets, mines>>
             /\ \A j, k \in Indices(log'.calls) :
                   j < k => log'.calls[j] < log'.calls[k]
             /\ \A k \in Indices(log'.calls) : ships[log'.calls[k]].lives > 0
             /\ pc' = "update" => log'.calls = AliveRoster
       /\ pc \notin {"controllers", "frame_end"} => log'.calls = log.calls
       /\ \A i \in DOMAIN ships : ships'[i].lives <= ships[i].lives]_vars

\* a frame in which the controller of the second ship has been called and
\* that of the first ship, out of lives, has not
C11_Witness ==
    /\ pc = "update"
    /\ Len(ships) = 2
    /\ ships[1].lives = 0
    /\ log.calls = <<2>>

\* C12: a controller whose ship_id does not match, or whose return fails one
\* of the checks on thrust, turn_rate, fire and drop_mine, makes run() raise
\* in the controller phase of that frame: no bullet, mine, asteroid or ship
\* is updated, the clock does not advance, no controller of a later ship is
\* called, and run() takes no further step; a frame goes on to the update
\* only if no check failed.
C12_ContractViolationIsFatal ==
    /\ [](log.raised # "none" <=> pc = "raised")
    /\ [](pc = "raised" =>
             /\ \A k \in Indices(log.calls) : log.calls[k] <= log.raiser
             /\ \A i \in DOMAIN ships : i >= log.raiser => commands[i] = NoCommand
             /\ (log.raised = "id_mismatch") <=> ~InList(log.raiser, log.calls))
    /\ [][/\ pc # "raised"
          /\ pc' = "raised" =>
                /\ pc = "controllers"
                /\ UNCHANGED <<controllers, ships, liveships, asteroids, bullets, mines,
                               sim_time, sim_frame, stop_reason>>]_vars

\* the second controller of a frame returns a fire that is not a bool, after
\* the first ship got its commands
C12_Witness ==
    /\ pc = "raised"
    /\ log.raised = "fire_not_bool"
    /\ log.raiser = 2
    /\ log.calls = <<1, 2>>
    /\ commands[1].fire
    /\ sim_frame = 1

\* candidate c was enumerated before candidate d: outer index ascending, then
\* inner index ascending
EnumeratedBefore(c, d) == c[2] < d[2] \/ (c[2] = d[2] /\ c[3] < d[3])

\* C13: the candidate list of each collision category (bullet-asteroid,
\* ship-asteroid, ship-ship) is in ascending collision time, and candidates
\* of exactly equal time are in the order in which their pairs were
\* enumerated.
C13_StableInsertion ==
    pc \in {"mine_blast", "ship_ship", "frame_end"} =>
        \A j, k \in Indices(collisions) :
           j < k =>
              \/ collisions[j][1] < collisions[k][1]
              \/ /\ collisions[j][1] = collisions[k][1]
                 /\ EnumeratedBefore(collisions[j], collisions[k])

\* three ship-ship candidates: the pair enumerated first has the latest
\* time and is last, the two others have equal times and keep their order
C13_Witness ==
    /\ pc = "frame_end"
    /\ Len(collisions) = 3
    /\ collisions[1][1] = collisions[2][1]
    /\ collisions[2][1] < collisions[3][1]
    /\ EnumeratedBefore(collisions[3], collisions[1])
    /\ EnumeratedBefore(collisions[1], collisions[2])

\* the sum of field f over all roster ships of team t, dead or alive
TeamSum(t, f) ==
    SumSeq([i \in DOMAIN ships |-> IF scenario.teams[i] = t THEN ships[i][f] ELSE 0])

\* C14: the roster keeps every ship of the scenario, in place, whatever its
\* lives; the live list is a sub-list of the roster from which only ships
\* with lives = 0 are missing; after every Score.update each team's
\* asteroids_hit, bullets_hit, shots_fired, deaths and lives_remaining are
\* the sums over all roster ships of the team, dead ships included.
C14_ScoreOverFullRoster ==
    /\ Len(ships) = Len(scenario.lives)
    /\ \A i \in DOMAIN ships : ships[i].id = i
    /\ \A i \in DOMAIN ships : ships[i].lives > 0 => InList(i, liveships)
    /\ \A j, k \in Indices(liveships) : j < k => liveships[j] < liveships[k]
    /\ (pc \in {"controllers", "done"} /\ sim_frame > 0) =>
          /\ \A i \in Range(liveships) : ships[i].lives > 0
          /\ \A t \in DOMAIN score :
                /\ score[t].asteroids_hit = TeamSum(t, "asteroids_hit")
                /\ score[t].bullets_hit = TeamSum(t, "bullets_hit")
                /\ score[t].shots_fired = TeamSum(t, "bullets_shot")
                /\ score[t].deaths = TeamSum(t, "deaths")
                /\ score[t].lives_remaining = TeamSum(t, "lives")

\* the score counts the hits of a ship that is out of lives and off the
\* live list, in a team that still has a live ship
C14_Witness ==
    /\ pc \in {"controllers", "done"}
    /\ sim_frame = 2
    /\ \E i, j \in DOMAIN ships :
          /\ scenario.teams[i] = scenario.teams[j]
          /\ ships[i].lives = 0 /\ ~InList(i, liveships)
          /\ ships[i].bullets_hit = 1
          /\ ships[j].lives > 0 /\ ships[j].bullets_hit = 0
          /\ score[scenario.teams[i]].bullets_hit = 1
          /\ score[scenario.teams[i]].deaths = 1

\* C15 as claimed: nothing a controller stores into the objects it is given
\* changes a value of the simulation or a value another controller sees, in
\* the same or a later frame: every asteroid's position list holds the
\* asteroid's own coordinates, and so does every snapshot handed to a
\* controller.
C15_SnapshotIsolation ==
    /\ \A a \in Indices(asteroids) : asteroids[a].position = "own"
    /\ \A k \in Indices(log.seen) :
          \A a \in DOMAIN log.seen[k] : log.seen[k][a] = "own"

Impactors == {"bullet", "ship", "mine"}

\* the directions theta of the resultant velocity, in degrees
Thetas == {0, 90}

\* the values of random.random(), in halves
Randoms == {0, 1}

\* Asteroid(position, size, angle=...), for a size that is falsy or in 1..4
AsteroidAt(x, y, size, angle) ==
    [size |-> AsteroidSize(size), x |-> x, y |-> y, angle |-> angle]

\* Asteroid.destruct without the test on the size
destruct_NoSizeTest(a, impactor, dist_zero, theta, random_ast_split, r1, r2) ==
    LET split_angle_bound == IF impactor = "mine" /\ dist_zero THEN 30 * 8 ELSE 30
        angles == IF random_ast_split
                  THEN << theta + (split_angle_bound * r1) \div 2, theta,
                          theta - (split_angle_bound * r2) \div 2 >>
                  ELSE << theta + split_angle_bound \div 2, theta,
                          theta - split_angle_bound \div 2 >>
    IN [k \in 1..3 |-> AsteroidAt(a.x, a.y, a.size - 1, angles[k])]

\* Asteroid.destruct: impactor is the kind of the impactor, dist_zero says
\* that a mine lies exactly on the asteroid, theta is the direction of the
\* resultant velocity, r1 and r2 are the two random draws of a random split
destruct(a, impactor, dist_zero, theta, random_ast_split, r1, r2) ==
    IF a.size # 1
    THEN LET split_angle_bound == IF impactor = "mine" /\ dist_zero THEN 30 * 8 ELSE 30
             angles == IF random_ast_split
                       THEN << theta + (split_angle_bound * r1) \div 2, theta,
                               theta - (split_angle_bound * r2) \div 2 >>
                       ELSE << theta + split_angle_bound \div 2, theta,
                               theta - split_angle_bound \div 2 >>
         IN [k \in 1..3 |-> AsteroidAt(a.x, a.y, a.size - 1, angles[k])]
    ELSE <<>>

\* an asteroid as a scenario creates it, with the rest of the state idle
DestructInit ==
    /\ pc = "destruct"
    /\ \E size \in 0..4, x \in Xs, y \in Xs : asteroids = <<AsteroidAt(x, y, size, 0)>>
    /\ ships = <<>> /\ liveships = <<>> /\ bullets = <<>> /\ mines = <<>>
    /\ sim_time = 0 /\ sim_frame = 0
    /\ stop_reason = not_stopped
    /\ scenario = [sizes |-> <<>>]
    /\ time_limit = GameTimeLimit
    /\ commands = <<>> /\ collisions = <<>> /\ controllers = <<>>
    /\ ships_exempt_from_further_damage = <<>>
    /\ cull_ships = FALSE
    /\ log = [parent |-> <<>>, impactor |-> "none", random_ast_split |-> FALSE,
              children |-> <<>>]
    /\ score = <<>>
    /\ game_state = None

\* the asteroid is destructed and one of its children, if any, is followed;
\* sim_frame counts the destructions of the lineage
Destruct ==
    /\ pc = "destruct"
    /\ \E impactor \in Impactors, dist_zero \in BOOLEAN, theta \in Thetas,
          random_ast_split \in BOOLEAN, r1 \in Randoms, r2 \in Randoms :
         LET children == destruct(asteroids[1], impactor, dist_zero, theta,
                                  random_ast_split, r1, r2)
         IN /\ log' = [parent |-> asteroids, impactor |-> impactor,
                       random_ast_split |-> random_ast_split, children |-> children]
            /\ IF children = <<>>
               THEN asteroids' = <<>> /\ pc' = "done"
               ELSE (\E k \in DOMAIN children : asteroids' = <<children[k]>>)
                    /\ pc' = pc
    /\ sim_frame' = sim_frame + 1
    /\ UNCHANGED <<controllers, ships, liveships, bullets, mines, sim_time, stop_reason, scenario,
                   time_limit, commands, collisions,
                   ships_exempt_from_further_damage, cull_ships, score, game_state>>

DestructNext == Destruct

DestructSpec == DestructInit /\ [][DestructNext]_vars

\* C17: Asteroid.destruct on an asteroid of size 2, 3 or 4 returns exactly 3
\* children, each of the parent's size - 1 and at the parent's position,
\* whatever the impactor and the split mode; on an asteroid of size 1 it
\* returns the empty list; every asteroid created has a size >= 1, and a
\* lineage ends after at most 4 destructions.
C17_DestructChildren ==
    /\ log.parent # <<>> =>
          LET a == log.parent[1]
          IN IF a.size \in 2..4
             THEN /\ Len(log.children) = 3
                  /\ \A k \in DOMAIN log.children :
                        /\ log.children[k].size = a.size - 1
                        /\ log.children[k].x = a.x
                        /\ log.children[k].y = a.y
             ELSE a.size = 1 /\ log.children = <<>>
    /\ \A k \in DOMAIN asteroids : asteroids[k].size >= 1
    /\ sim_frame <= 4
    /\ sim_frame = 4 => asteroids = <<>>

\* the fourth destruction of a lineage: a size 1 asteroid, itself a side
\* child of a random split by a mine, is destructed by a ship and leaves
\* nothing
C17_Witness ==
    /\ pc = "done" /\ sim_frame = 4
    /\ log.parent # <<>> /\ log.parent[1].size = 1 /\ log.parent[1].angle # 0
    /\ log.impactor = "ship" /\ log.children = <<>>

\* C18 as claimed: a ship created at scenario start has respawn_time_left > 0
\* and is not destroyed in the first frame.
C18_InvulnerableAfterSpawn ==
    sim_frame = 0 =>
        \A i \in DOMAIN ships :
            /\ pc = "controllers" => ships[i].respawning > 0
            /\ ships[i].deaths = 0

\* C18, amended: the invulnerability countdown is active only after a
\* respawn: a ship created at scenario start has respawn_time_left = 0
\* (is_respawning false), and respawn_time_left > 0 only for a ship that has
\* been destructed (deaths > 0).
C18_InvulnerableOnlyAfterRespawn ==
    /\ (sim_frame = 0 /\ pc = "controllers") =>
          \A i \in DOMAIN ships : ships[i].respawning = 0 /\ ~is_respawning(ships[i])
    /\ \A i \in DOMAIN ships : ships[i].respawning > 0 => ships[i].deaths > 0

\* a ship created at scenario start is destroyed by an asteroid in the first
\* frame, and only then is invulnerable
C18_Witness ==
    /\ sim_frame = 0 /\ pc = "ship_ship"
    /\ \E i \in DOMAIN ships :
          /\ ships[i].deaths = 1 /\ ships[i].respawning = RespawnTime
          /\ ships[i].asteroids_hit = 1

\* ---- Ship.update as a function of speed, heading and commands -----------
\* Speeds are in m/s, accelerations in m/s^2, angles in degrees; products
\* with delta_time are exact for the commands below, and the speed at the end
\* of a second integration phase is rounded toward zero to a whole m/s.
Drag == 80                       \* Ship.drag
ThrustRange == <<-480, 480>>     \* Ship.thrust_range
TurnRateRange == <<-180, 180>>   \* Ship.turn_rate_range

\* the thrusts and turn rates a controller may return: any finite number,
\* here some inside, at and beyond the bounds
ThrustCommands == {-600, -480, -40, 0, 40, 480, 600}
TurnRateCommands == {-270, -180, 0, 180, 270}

\* the headings a scenario gives its ships
Headings == {0, 90}

Abs(v) == IF v < 0 THEN -v ELSE v

Min(a, b) == IF a <= b THEN a ELSE b

\* copysign(m, v) for m >= 0
copysign(m, v) == IF v < 0 THEN -m ELSE m

\* a / b rounded toward zero, b > 0
Quot(a, b) == IF a >= 0 THEN a \div b ELSE -((-a) \div b)

\* no bounds check of a command
BoundsCheck_None(value, range) == value

\* the bounds check of a command at the head of Ship.update
BoundsCheck(value, range) ==
    IF value < range[1] \/ value > range[2]
    THEN Min(Max(range[1], value), range[2])
    ELSE value

\* the speed as the integration leaves it, and whether one of its
\* assertions failed; thrust is the bounds-checked thrust
IntegrateSpeed(initial_speed, thrust) ==
    LET is_moving == initial_speed # 0
        motion_sign == IF is_moving THEN copysign(1, initial_speed)
                       ELSE IF thrust # 0 THEN copysign(1, thrust) ELSE 0
        drag_acc == -Drag * motion_sign
        net_acc == thrust + drag_acc
        single == initial_speed + Quot(net_acc * DeltaTime, 10)
    IN IF is_moving /\ net_acc * initial_speed < 0
       THEN \* case 1: t_to_stop = -initial_speed / net_acc
            IF 10 * Abs(initial_speed) < DeltaTime * Abs(net_acc)
            THEN LET accel_phase2 == IF Abs(drag_acc) <= Abs(thrust)
                                     THEN thrust - drag_acc ELSE 0
                     \* t2 = delta_time - t1, as a fraction over 10 * |net_acc|
                     t2_num == DeltaTime * Abs(net_acc) - 10 * Abs(initial_speed)
                 IN [speed |-> Quot(accel_phase2 * t2_num, 10 * Abs(net_acc)),
                     raised |-> FALSE]
            ELSE [speed |-> single, raised |-> FALSE]
       ELSE \* case 2: to_max = (max_speed - initial_speed) / net_acc
            LET max_speed == copysign(MaxSpeed, 10 * initial_speed + net_acc * DeltaTime)
            IN IF net_acc = 0 THEN [speed |-> single, raised |-> FALSE]
               ELSE IF (max_speed - initial_speed) * net_acc < 0
                    THEN [speed |-> initial_speed, raised |-> TRUE]
               ELSE IF 10 * Abs(max_speed - initial_speed) < DeltaTime * Abs(net_acc)
                    THEN [speed |-> max_speed, raised |-> FALSE]
               ELSE [speed |-> single, raised |-> FALSE]

\* no clamp of the speed after the acceleration
ClampSpeed_None(speed) == speed

\* the clamp of the speed after the acceleration
ClampSpeed(speed) ==
    IF Abs(speed) > MaxSpeed THEN copysign(MaxSpeed, speed) ELSE speed

\* The split of the frame that Ship.update decides on: whether there are
\* two phases, and then t1, t2 and delta_time in seconds as numerators over
\* the denominator den, the speed v1 at the split and the acceleration of
\* the second phase.  With one phase den is 10 and t1 is 0.
FrameSplit(initial_speed, thrust) ==
    LET is_moving == initial_speed # 0
        motion_sign == IF is_moving THEN copysign(1, initial_speed)
                       ELSE IF thrust # 0 THEN copysign(1, thrust) ELSE 0
        drag_acc == -Drag * motion_sign
        net_acc == thrust + drag_acc
        max_speed == copysign(MaxSpeed, 10 * initial_speed + net_acc * DeltaTime)
        one == [two |-> FALSE, den |-> 10, t1 |-> 0, t2 |-> DeltaTime,
                dt |-> DeltaTime, v1 |-> initial_speed, net_acc |-> net_acc,
                accel_phase2 |-> net_acc]
    IN IF is_moving /\ net_acc * initial_speed < 0
       THEN IF 10 * Abs(initial_speed) < DeltaTime * Abs(net_acc)
            THEN [two |-> TRUE, den |-> 10 * Abs(net_acc),
                  t1 |-> 10 * Abs(initial_speed),
                  t2 |-> DeltaTime * Abs(net_acc) - 10 * Abs(initial_speed),
                  dt |-> DeltaTime * Abs(net_acc),
                  v1 |-> 0, net_acc |-> net_acc,
                  accel_phase2 |-> IF Abs(drag_acc) <= Abs(thrust)
                                   THEN thrust - drag_acc ELSE 0]
            ELSE one
       ELSE IF net_acc # 0 /\ (max_speed - initial_speed) * net_acc >= 0
               /\ 10 * Abs(max_speed - initial_speed) < DeltaTime * Abs(net_acc)
            THEN IF max_speed = initial_speed
                 THEN \* t1 = 0: the first period is skipped
                      [one EXCEPT !.v1 = max_speed, !.accel_phase2 = 0]
                 ELSE [two |-> TRUE, den |-> 10 * Abs(net_acc),
                       t1 |-> 10 * Abs(max_speed - initial_speed),
                       t2 |-> DeltaTime * Abs(net_acc)
                                 - 10 * Abs(max_speed - initial_speed),
                       dt |-> DeltaTime * Abs(net_acc),
                       v1 |-> max_speed, net_acc |-> net_acc,
                       accel_phase2 |-> 0]
            ELSE one

\* The phases of the forward integration of Ship.update in the order of
\* time: the calls of analytic_ship_movement_integration, each with the
\* times it covers (0 is the start of the frame), the speed and heading it
\* starts from and ends with, and its acceleration.  Times and headings are
\* numerators over den; speed is the speed the integration ends with.
ForwardPhases(initial_speed, thrust, heading, turn_rate, speed) ==
    LET f == FrameSplit(initial_speed, thrust)
    IN IF f.two
       THEN << [from_t |-> 0, to_t |-> f.t1, v_from |-> initial_speed, v_to |-> f.v1,
                a |-> f.net_acc, theta_from |-> heading * f.den,
                theta_to |-> heading * f.den + turn_rate * f.t1, den |-> f.den],
               [from_t |-> f.t1, to_t |-> f.dt, v_from |-> f.v1, v_to |-> speed,
                a |-> f.accel_phase2,
                theta_from |-> heading * f.den + turn_rate * f.t1,
                theta_to |-> heading * f.den + turn_rate * f.dt, den |-> f.den] >>
       ELSE << [from_t |-> 0, to_t |-> f.dt, v_from |-> f.v1, v_to |-> speed,
                a |-> f.accel_phase2, theta_from |-> heading * f.den,
                theta_to |-> heading * f.den + turn_rate * f.dt, den |-> f.den] >>

\* integration_initial_states as Ship.update appends them: (start_t, end_t,
\* v0, a, theta0) with self.speed for v0 in every record; times and
\* headings are numerators over den, speed is self.speed at the appends
IntegrationRecords(initial_speed, thrust, heading, turn_rate, speed) ==
    LET f == FrameSplit(initial_speed, thrust)
        theta1 == heading * f.den + turn_rate * f.t1
    IN IF f.two
       THEN << [start_t |-> 0, end_t |-> -f.t2, v0 |-> speed, a |-> f.accel_phase2,
                theta0 |-> theta1 + turn_rate * f.t2, den |-> f.den],
               [start_t |-> -f.t2, end_t |-> -f.dt, v0 |-> speed, a |-> f.net_acc,
                theta0 |-> theta1, den |-> f.den] >>
       ELSE << [start_t |-> 0, end_t |-> -f.dt, v0 |-> speed, a |-> f.accel_phase2,
                theta0 |-> heading * f.den + turn_rate * f.dt, den |-> f.den] >>

\* Ship.update, as far as thrust, turn_rate, speed, heading and the
\* integration records go; phases is the forward integration it performed
ShipKinematics(s) ==
    LET thrust == BoundsCheck(s.thrust, ThrustRange)
        turn_rate == BoundsCheck(s.turn_rate, TurnRateRange)
        moved == IntegrateSpeed(s.speed, thrust)
    IN [thrust |-> thrust, turn_rate |-> turn_rate,
        speed |-> ClampSpeed(moved.speed),
        heading |-> (s.heading + Quot(turn_rate * DeltaTime, 10)) % 360,
        raised |-> moved.raised,
        integration_initial_states |->
            IF moved.raised THEN <<>>
            ELSE IntegrationRecords(s.speed, thrust, s.heading, turn_rate, moved.speed),
        phases |->
            IF moved.raised THEN <<>>
            ELSE ForwardPhases(s.speed, thrust, s.heading, turn_rate, moved.speed)]

\* Ship.destruct and Ship.respawn, as far as these four go
ShipRespawn(s) == [s EXCEPT !.speed = 0]

\* a ship as a scenario creates it, with the rest of the state idle
KinematicsInit ==
    /\ pc = "kinematics"
    /\ \E heading \in Headings :
          ships = << [thrust |-> 0, turn_rate |-> 0, speed |-> 0,
                      heading |-> heading, raised |-> FALSE,
                      integration_initial_states |-> <<>>, phases |-> <<>>] >>
    /\ liveships = <<1>>
    /\ asteroids = <<>> /\ bullets = <<>> /\ mines = <<>>
    /\ sim_time = 0 /\ sim_frame = 0
    /\ stop_reason = not_stopped
    /\ scenario = [sizes |-> <<>>]
    /\ time_limit = GameTimeLimit
    /\ commands = <<>> /\ collisions = <<>> /\ controllers = <<>>
    /\ ships_exempt_from_further_damage = <<>>
    /\ cull_ships = FALSE
    /\ log = [before |-> <<>>]
    /\ score = <<>>
    /\ game_state = None

\* the ship is given the commands of its controller and is updated
KinematicsUpdate ==
    /\ pc = "kinematics" /\ ~ships[1].raised
    /\ \E thrust \in ThrustCommands, turn_rate \in TurnRateCommands :
         LET commanded == [ships[1] EXCEPT !.thrust = thrust, !.turn_rate = turn_rate,
                                           !.integration_initial_states = <<>>,
                                           !.phases = <<>>]
         IN /\ ships' = <<ShipKinematics(commanded)>>
            /\ log' = [before |-> <<commanded>>]
    /\ UNCHANGED <<controllers, pc, liveships, asteroids, bullets, mines, sim_time, sim_frame,
                   stop_reason, scenario, time_limit, commands, collisions,
                   ships_exempt_from_further_damage, cull_ships, score, game_state>>

\* the ship is destructed by a collision
KinematicsDestruct ==
    /\ pc = "kinematics" /\ ~ships[1].raised
    /\ ships' = <<ShipRespawn(ships[1])>>
    /\ log' = [before |-> <<>>]
    /\ UNCHANGED <<controllers, pc, liveships, asteroids, bullets, mines, sim_time, sim_frame,
                   stop_reason, scenario, time_limit, commands, collisions,
                   ships_exempt_from_further_damage, cull_ships, score, game_state>>

KinematicsNext ==
    \/ KinematicsUpdate
    \/ KinematicsDestruct

KinematicsSpec == KinematicsInit /\ [][KinematicsNext]_vars

\* C19: after every Ship.update and every destruct, |speed| <= max_speed,
\* whatever the sequence of thrust and turn-rate commands, those at and
\* beyond the bounds included.
C19_SpeedClamp ==
    \A i \in DOMAIN ships : Abs(ships[i].speed) <= MaxSpeed

\* a ship moving forward is commanded a thrust beyond the lower bound, crosses
\* speed 0 within the frame and ends the update at -max_speed
C19_Witness ==
    /\ log.before # <<>>
    /\ log.before[1].speed > 0 /\ log.before[1].thrust < ThrustRange[1]
    /\ ships[1].speed = -MaxSpeed

\* C20: Ship.update with a thrust or turn_rate command outside its range
\* stores the nearest bound in its place, raises nothing, and does the rest
\* of the update as if the bound had been commanded; after every update
\* thrust is in thrust_range and turn_rate in turn_rate_range.
C20_CommandsClamped ==
    /\ \A i \in DOMAIN ships :
          /\ ThrustRange[1] <= ships[i].thrust /\ ships[i].thrust <= ThrustRange[2]
          /\ TurnRateRange[1] <= ships[i].turn_rate
          /\ ships[i].turn_rate <= TurnRateRange[2]
          /\ ~ships[i].raised
    /\ log.before # <<>> =>
          LET c == log.before[1]
              nearest(v, range) == IF v < range[1] THEN range[1]
                                   ELSE IF v > range[2] THEN range[2] ELSE v
              bound == [c EXCEPT !.thrust = nearest(c.thrust, ThrustRange),
                                 !.turn_rate = nearest(c.turn_rate, TurnRateRange)]
          IN /\ ships[1].thrust = bound.thrust
             /\ ships[1].turn_rate = bound.turn_rate
             /\ ships[1] = ShipKinematics(bound)

\* an update with both commands beyond their bounds
C20_Witness ==
    /\ log.before # <<>>
    /\ log.before[1].thrust = 600 /\ log.before[1].turn_rate = -270
    /\ ships[1].thrust = 480 /\ ships[1].turn_rate = -180
    /\ ships[1].speed # log.before[1].speed /\ ships[1].heading # log.before[1].heading

\* ---- the initialisation of run() ------------------------------------------
\* the sizes a scenario may give for its asteroid
GivenSizes == {None, -1, 0, 1, 2, 5}

\* the numbers of controllers run() may be passed
ControllerCounts == 0..2

\* scenarios of one ship and one asteroid of a given size
SetupScenarios ==
    { [lives |-> <<1>>, teams |-> <<1>>, mines_remaining |-> <<0>>, bullet_limit |-> 1,
       sizes |-> <<g>>, time_limit |-> 15, stop_if_no_ammo |-> FALSE] : g \in GivenSizes }

\* run() is called with a scenario and a list of controllers
SetupInit ==
    /\ pc = "setup"
    /\ scenario \in SetupScenarios
    /\ \E n \in ControllerCounts : controllers = [k \in 1..n |-> Controller]
    /\ ships = <<>> /\ liveships = <<>>
    /\ asteroids = <<>> /\ bullets = <<>> /\ mines = <<>>
    /\ sim_time = 0 /\ sim_frame = 0
    /\ stop_reason = not_stopped
    /\ time_limit = GameTimeLimit
    /\ commands = <<>> /\ collisions = <<>>
    /\ ships_exempt_from_further_damage = <<>>
    /\ cull_ships = FALSE
    /\ log = EmptyLog
    /\ score = <<>>
    /\ game_state = None

\* the test on the number of controllers that asks for as many as ships
EnoughControllers_Equal(n_controllers, n_ships) == n_controllers = n_ships

\* assert len(controllers) >= len(ships)
EnoughControllers(n_controllers, n_ships) == n_controllers >= n_ships

\* the initialisation of run(): the asteroids and ships of the scenario are
\* created (Asteroid.__init__ may raise ValueError), the number of
\* controllers is asserted, the controllers are assigned
Setup ==
    /\ pc = "setup"
    /\ IF \E i \in DOMAIN scenario.sizes : SizeError(scenario.sizes[i])
       THEN /\ pc' = "raised"
            /\ log' = [log EXCEPT !.raised = "ValueError"]
            /\ UNCHANGED <<controllers, ships, liveships, asteroids, time_limit,
                           commands, score>>
       ELSE IF ~EnoughControllers(Len(controllers), Len(scenario.lives))
       THEN /\ pc' = "raised"
            /\ log' = [log EXCEPT !.raised = "AssertionError"]
            /\ UNCHANGED <<controllers, ships, liveships, asteroids, time_limit,
                           commands, score>>
       ELSE /\ pc' = "controllers"
            /\ \E xs \in [DOMAIN scenario.lives -> Xs] :
                  ships' = ScenarioShips(scenario, xs)
            /\ liveships' = [i \in DOMAIN scenario.lives |-> i]
            /\ asteroids' = ScenarioAsteroids(scenario)
            /\ controllers' = AssignControllers(controllers, Len(scenario.lives))
            /\ time_limit' = IF scenario.time_limit # 0 THEN scenario.time_limit
                                                        ELSE GameTimeLimit
            /\ commands' = [i \in DOMAIN scenario.lives |-> NoCommand]
            /\ score' = [t \in Range(scenario.teams) |-> Team]
            /\ log' = log
    /\ UNCHANGED <<bullets, mines, sim_time, sim_frame, stop_reason, scenario,
                   collisions, ships_exempt_from_further_damage, cull_ships, game_state>>

SetupNext ==
    \/ Setup
    \/ Controllers
    \/ Update
    \/ BulletAsteroid
    \/ MineBlast
    \/ ShipAsteroid
    \/ ShipShip
    \/ FrameEnd

SetupSpec == SetupInit /\ [][SetupNext]_vars

\* C21 as claimed: an Asteroid given a size outside 1..4 (0 and negative
\* sizes included) fails at construction, before the frame loop starts, and
\* no asteroid is created with a size other than the one given.
C21_InvalidSizeRejected ==
    pc # "setup" =>
        \A i \in DOMAIN scenario.sizes :
            LET size == scenario.sizes[i]
            IN /\ (size # None /\ size \notin 1..4) =>
                     pc = "raised" /\ asteroids = <<>> /\ sim_frame = 0
               /\ (size # None /\ pc = "controllers" /\ sim_frame = 0) =>
                     asteroids[i].size = size

\* the scenario's asteroids can all be constructed
SizesAccepted == \A i \in DOMAIN scenario.sizes : ~SizeError(scenario.sizes[i])

\* C22 as claimed: run() fails before the first frame whenever the number of
\* controllers differs from the number of ships, fewer or more.
C22_MismatchIsFatal ==
    (pc # "setup" /\ Len(controllers) # Len(scenario.lives)) =>
        pc = "raised" /\ sim_frame = 0 /\ log.calls = <<>>

\* C22, amended: run() fails before the first frame, on its assertion,
\* whenever fewer controllers than ships are passed; with more controllers
\* than ships it runs: the first len(ships) controllers are given the ships in
\* order, the others are given no ship and are never called.
C22_TooFewControllersIsFatal ==
    (pc # "setup" /\ SizesAccepted) =>
        /\ Len(controllers) < Len(scenario.lives) =>
              /\ pc = "raised" /\ log.raised = "AssertionError"
              /\ sim_frame = 0 /\ log.calls = <<>> /\ ships = <<>>
        /\ Len(controllers) >= Len(scenario.lives) =>
              /\ pc # "raised"
              /\ \A k \in DOMAIN controllers :
                    controllers[k].ship_id = IF k <= Len(ships) THEN ships[k].id ELSE 0
              /\ \A k \in DOMAIN log.calls : log.calls[k] <= Len(ships)

\* a run with one ship and two controllers has called the first controller
\* and goes on to the update
C22_Witness ==
    /\ pc = "update" /\ Len(controllers) = 2 /\ Len(ships) = 1
    /\ controllers[2].ship_id = 0
    /\ log.calls = <<1>>

\* the bullets of the list that are equal to b
Copies(list, b) == Cardinality({k \in DOMAIN list : list[k] = b})

\* C23: a bullet leaves the bullet list only in the bullet step of a frame in
\* which it is resolved as hitting an asteroid or has both its head and its
\* tail outside [0, map_width], and it leaves in that very step; every other
\* bullet stays; the update moves a bullet by its velocity without wrapping
\* its position, and no other step touches the list.
C23_BulletLeavesOnlyHitOrOffMap ==
    [][ IF pc = "bullet_asteroid"
        THEN LET hit == {collisions'[log'.resolved[k]][2] : k \in DOMAIN log'.resolved}
                 head_inside(b) == 0 <= bullets[b].x /\ bullets[b].x <= MapWidth
                 tail_inside(b) ==
                     /\ 0 <= bullets[b].x + bullets[b].tail_delta_x
                     /\ bullets[b].x + bullets[b].tail_delta_x <= MapWidth
                 stay == {b \in DOMAIN bullets :
                             b \notin hit /\ (head_inside(b) \/ tail_inside(b))}
             IN /\ Len(bullets') = Cardinality(stay)
                /\ \A b \in Range(bullets) \cup Range(bullets') :
                      Copies(bullets', b)
                          = Cardinality({k \in stay : bullets[k] = b})
        ELSE IF pc = "update"
        THEN /\ Len(bullets') >= Len(bullets)
             /\ \A k \in DOMAIN bullets :
                   /\ bullets'[k].owner = bullets[k].owner
                   /\ bullets'[k].x * 10 = bullets[k].x * 10 + bullets[k].vx * DeltaTime
        ELSE bullets' = bullets ]_vars

\* after the bullet step of a frame in which no bullet hit an asteroid, a
\* bullet fired in an earlier frame is gone, both ends outside the map, and
\* the bullet just fired towards the left edge is still in the list with its
\* head outside and its tail inside the map
C23_Witness ==
    /\ pc = "mine_blast" /\ log.resolved = <<>>
    /\ \A i \in DOMAIN ships : ships[i].bullets_hit = 0
    /\ \E i \in DOMAIN ships : ships[i].bullets_shot = 2
    /\ Len(bullets) = 1
    /\ bullets[1].x < 0 /\ bullets[1].x + bullets[1].tail_delta_x >= 0

\* ---- two runs of the random parts of a scenario ---------------------------
MaxSplits == 3           \* destructions followed in the two runs

\* the generator of module random, a function of its state: the state after
\* a draw, and the number a draw yields
RandomNext(r) == (5 * r + 3) % 16
RandomValue(r) == r % 4

\* the states the generator may be in when run() is called
Entropy == {0, 1}

\* the seeds of the scenarios
Seeds == {5, 9}

\* Scenario.asteroids without the call of random.seed
Seed_Ignored(r, seed) == r

\* Scenario.asteroids: if self.seed is not None: random.seed(self.seed)
Seed(r, seed) == IF seed # None THEN seed ELSE r

\* Asteroid.__init__: the draws for the starting angle and speed when none
\* is given, and the draws for the display angle and the turn rate
RandomAsteroid(r, x, size, angle) ==
    LET r1 == IF angle = None THEN RandomNext(r) ELSE r
        r2 == IF angle = None THEN RandomNext(r1) ELSE r1
        r3 == RandomNext(r2)
        r4 == RandomNext(r3)
    IN [asteroid |-> [size |-> AsteroidSize(size), x |-> x,
                      heading |-> IF angle = None THEN 90 * RandomValue(r1) ELSE angle,
                      speed_draw |-> IF angle = None THEN RandomValue(r2) ELSE None,
                      turnrate |-> RandomValue(r4)],
        rng |-> r4]

\* Scenario.asteroids for n empty asteroid states: the position is drawn with
\* random.randrange (x, then y), then the asteroid is constructed
RECURSIVE RandomAsteroids(_, _, _)
RandomAsteroids(n, r, acc) ==
    IF n = 0 THEN [asteroids |-> acc, rng |-> r]
    ELSE LET rx == RandomNext(r)
             ry == RandomNext(rx)
             made == RandomAsteroid(ry, 250 * RandomValue(rx), None, None)
         IN RandomAsteroids(n - 1, made.rng, Append(acc, made.asteroid))

\* Asteroid.destruct with random_ast_split: the two offsets are drawn, then
\* the three children are constructed
RandomDestruct(a, theta, r) ==
    IF a.size # 1
    THEN LET r1 == RandomNext(r)
             r2 == RandomNext(r1)
             c1 == RandomAsteroid(r2, a.x, a.size - 1, theta + 15 * RandomValue(r1))
             c2 == RandomAsteroid(c1.rng, a.x, a.size - 1, theta)
             c3 == RandomAsteroid(c2.rng, a.x, a.size - 1, theta - 15 * RandomValue(r2))
         IN [children |-> <<c1.asteroid, c2.asteroid, c3.asteroid>>, rng |-> c3.rng]
    ELSE [children |-> <<>>, rng |-> r]

\* run() is called twice with the same scenario; the generator is in some
\* state at each call.  asteroids[run] and log.rng[run] belong to the run.
TwinInit ==
    /\ pc = "twin_setup"
    /\ \E seed \in Seeds, n \in 1..2 : scenario = [seed |-> seed, num_asteroids |-> n]
    /\ \E rng \in [1..2 -> Entropy] : log = [rng |-> rng, idx |-> 0, start |-> rng]
    /\ asteroids = [run \in 1..2 |-> <<>>]
    /\ ships = <<>> /\ liveships = <<>> /\ bullets = <<>> /\ mines = <<>>
    /\ sim_time = 0 /\ sim_frame = 0
    /\ stop_reason = not_stopped
    /\ time_limit = GameTimeLimit
    /\ commands = <<>> /\ collisions = <<>> /\ controllers = <<>>
    /\ ships_exempt_from_further_damage = <<>>
    /\ cull_ships = FALSE
    /\ score = <<>>
    /\ game_state = None

\* both runs create the asteroids of the scenario
TwinSetup ==
    /\ pc = "twin_setup"
    /\ LET made == [run \in 1..2 |->
                      RandomAsteroids(scenario.num_asteroids,
                                      Seed(log.rng[run], scenario.seed), <<>>)]
       IN /\ asteroids' = [run \in 1..2 |-> made[run].asteroids]
          /\ log' = [log EXCEPT !.rng = [run \in 1..2 |-> made[run].rng]]
    /\ pc' = "twin_run"
    /\ UNCHANGED <<controllers, ships, liveships, bullets, mines, sim_time, sim_frame,
                   stop_reason, scenario, time_limit, commands, collisions,
                   ships_exempt_from_further_damage, cull_ships, score, game_state>>

\* in both runs the same asteroid is hit, with the same resultant direction
\* theta, and is replaced by its children
TwinDestruct ==
    /\ pc = "twin_run" /\ sim_frame < MaxSplits
    /\ \E ast_idx \in DOMAIN asteroids[1], theta \in Thetas :
         LET split == [run \in 1..2 |->
                          RandomDestruct(asteroids[run][ast_idx], theta, log.rng[run])]
         IN /\ asteroids' = [run \in 1..2 |->
                                SwapPop(asteroids[run], ast_idx) \o split[run].children]
            /\ log' = [log EXCEPT !.rng = [run \in 1..2 |-> split[run].rng], !.idx = ast_idx]
    /\ sim_frame' = sim_frame + 1
    /\ UNCHANGED <<controllers, pc, ships, liveships, bullets, mines, sim_time,
                   stop_reason, scenario, time_limit, commands, collisions,
                   ships_exempt_from_further_damage, cull_ships, score, game_state>>

TwinNext ==
    \/ TwinSetup
    \/ TwinDestruct

TwinSpec == TwinInit /\ [][TwinNext]_vars

SweepHeadings == {0, 90, 180, 270}
Radii == {8, 16, 32}
Alongs == {-40, -8, 0, 6, 12, 20, 28, 40, 46, 52, 60, 64, 72, 80, 92, 100, 130}
SweepDeltaTime == 1       \* a frame of 0.1 s, in tenths of a second
Acrosses == {0, 7, 8, 9, 16, 17, 32, 33}

CosDeg(h) == CASE h = 0 -> 1 [] h = 90 -> 0 [] h = 180 -> -1 [] OTHER -> 0
SinDeg(h) == CASE h = 0 -> 0 [] h = 90 -> 1 [] h = 180 -> 0 [] OTHER -> -1

\* Bullet.__init__ in the plane
BulletAt(x, y, heading) ==
    [x |-> x, y |-> y, heading |-> heading,
     vx |-> BulletSpeed * CosDeg(heading), vy |-> BulletSpeed * SinDeg(heading),
     tail_delta_x |-> -BulletLength * CosDeg(heading),
     tail_delta_y |-> -BulletLength * SinDeg(heading)]

\* project_origin_onto_segment_dist_sq(x1, y1, x2, y2) <= rad_sq, in exact
\* arithmetic: t = n / len_sq with n = -(x1 dx + y1 dy), clamped to [0, 1];
\* for t inside, the squared distance of (x1 + t dx, y1 + t dy) is
\* x1^2 + y1^2 - n^2 / len_sq, compared here with both sides times len_sq
ProjectedWithin(x1, y1, x2, y2, rad_sq) ==
    LET dx == x2 - x1
        dy == y2 - y1
        len_sq == dx * dx + dy * dy
        n == -(x1 * dx + y1 * dy)
    IN IF len_sq = 0 THEN x1 * x1 + y1 * y1 <= rad_sq
       ELSE IF n > len_sq THEN x2 * x2 + y2 * y2 <= rad_sq
       ELSE IF n < 0 THEN x1 * x1 + y1 * y1 <= rad_sq
       ELSE (x1 * x1 + y1 * y1) * len_sq - n * n <= rad_sq * len_sq

\* the bounding interval of one coordinate of the segment over the frame
SweptMin(a0, b0, v) ==
    IF a0 < b0 THEN (IF v >= 0 THEN a0 - v ELSE a0)
    ELSE (IF v >= 0 THEN b0 - v ELSE b0)
SweptMax(a0, b0, v) ==
    IF a0 < b0 THEN (IF v >= 0 THEN b0 ELSE b0 - v)
    ELSE (IF v >= 0 THEN a0 ELSE a0 - v)

\* a detection that looks at the segment at the end of the frame only
circle_line_collision_EndOnly(ax0, ay0, bx0, by0, line_vel_x, line_vel_y, circle_x, circle_y, circle_vel_x, circle_vel_y, circle_radius, delta_time) ==
    ProjectedWithin(ax0 - circle_x, ay0 - circle_y, bx0 - circle_x, by0 - circle_y,
                    circle_radius * circle_radius)

\* circle_line_collision_continuous: the bounding box rejection, then the
\* four edges of the parallelogram swept in the frame of the circle
circle_line_collision_continuous(ax0, ay0, bx0, by0, line_vel_x, line_vel_y, circle_x, circle_y, circle_vel_x, circle_vel_y, circle_radius, delta_time) ==
    LET vx == ((line_vel_x - circle_vel_x) * delta_time) \div 10
        vy == ((line_vel_y - circle_vel_y) * delta_time) \div 10
        ax == ax0 - circle_x
        ay == ay0 - circle_y
        bx == bx0 - circle_x
        by == by0 - circle_y
        cx == ax - vx
        cy == ay - vy
        dx == bx - vx
        dy == by - vy
        rad_sq == circle_radius * circle_radius
    IN IF circle_x + circle_radius < SweptMin(ax0, bx0, vx)
          \/ circle_x - circle_radius > SweptMax(ax0, bx0, vx) THEN FALSE
       ELSE IF circle_y + circle_radius < SweptMin(ay0, by0, vy)
          \/ circle_y - circle_radius > SweptMax(ay0, by0, vy) THEN FALSE
       ELSE \/ ProjectedWithin(ax, ay, bx, by, rad_sq)
            \/ ProjectedWithin(cx, cy, dx, dy, rad_sq)
            \/ ProjectedWithin(ax, ay, cx, cy, rad_sq)
            \/ ProjectedWithin(bx, by, dx, dy, rad_sq)

\* solve_quadratic has real roots: a # 0 here, the discriminant is not
\* negative
HasRoots(a, b, c) == b * b - 4 * a * c >= 0

\* a velocity in hundreds of u/s: it scales the three discriminants of
\* collision_time_interval by the same positive factor
Hundreds(v) == IF v >= 0 THEN v \div 100 ELSE -((-v) \div 100)

\* collision_time_interval returns a start time that is not nan, for a
\* segment that moves along its own direction (the normal component of the
\* relative velocity is 0, so the times of the middle of the segment are not
\* finite and the times of the two end points decide)
StartTimeNotNan(ax, ay, bx, by, vx, vy, cx, cy, cvx, cvy, r) ==
    LET rvx == Hundreds(vx - cvx)
        rvy == Hundreds(vy - cvy)
        a0x == ax - cx
        a0y == ay - cy
        b0x == bx - cx
        b0y == by - cy
        k2 == rvx * rvx + rvy * rvy
    IN \/ HasRoots(k2, 2 * (rvx * a0x + rvy * a0y), a0x * a0x + a0y * a0y - r * r)
       \/ HasRoots(k2, 2 * (rvx * b0x + rvy * b0y), b0x * b0x + b0y * b0y - r * r)

\* one bullet after its update of the frame and one asteroid at rest
SweepInit ==
    /\ pc = "detect"
    /\ \E heading \in SweepHeadings, radius \in Radii,
          along \in Alongs, across \in Acrosses :
         /\ bullets = << BulletAt(500, 500, heading) >>
         /\ asteroids = << [x |-> 500 - along * CosDeg(heading) - across * SinDeg(heading),
                            y |-> 500 - along * SinDeg(heading) + across * CosDeg(heading),
                            vx |-> 0, vy |-> 0, radius |-> radius] >>
    /\ collisions = <<>>
    /\ log = [detected |-> FALSE]
    /\ ships = <<>> /\ liveships = <<>> /\ mines = <<>>
    /\ sim_time = 0 /\ sim_frame = 0
    /\ stop_reason = not_stopped
    /\ scenario = [time_limit |-> 0]
    /\ time_limit = GameTimeLimit
    /\ commands = <<>> /\ controllers = <<>>
    /\ ships_exempt_from_further_damage = <<>>
    /\ cull_ships = FALSE
    /\ score = <<>>
    /\ game_state = None

\* the collection of the bullet-asteroid collisions of the frame
Detect ==
    /\ pc = "detect"
    /\ collisions' =
         [k \in 1..(IF /\ circle_line_collision_continuous(
                            bullets[1].x, bullets[1].y,
                            bullets[1].x + bullets[1].tail_delta_x,
                            bullets[1].y + bullets[1].tail_delta_y,
                            bullets[1].vx, bullets[1].vy,
                            asteroids[1].x, asteroids[1].y,
                            asteroids[1].vx, asteroids[1].vy,
                            asteroids[1].radius, SweepDeltaTime)
                     /\ StartTimeNotNan(
                            bullets[1].x, bullets[1].y,
                            bullets[1].x + bullets[1].tail_delta_x,
                            bullets[1].y + bullets[1].tail_delta_y,
                            bullets[1].vx, bullets[1].vy,
                            asteroids[1].x, asteroids[1].y,
                            asteroids[1].vx, asteroids[1].vy,
                            asteroids[1].radius)
                  THEN 1 ELSE 0) |-> [bul_idx |-> 1, ast_idx |-> 1]]
    /\ log' = [detected |-> TRUE]
    /\ pc' = "detected"
    /\ UNCHANGED <<controllers, ships, liveships, asteroids, bullets, mines, sim_time,
                   sim_frame, stop_reason, scenario, time_limit, commands,
                   ships_exempt_from_further_damage, cull_ships, score, game_state>>

SweepNext == Detect

SweepSpec == SweepInit /\ [][SweepNext]_vars

\* the squared distance of the asteroid's centre from the bullet's segment
\* when the head is `back` units behind its place at the end of the frame,
\* measured along and across the line of flight
SegmentDistSq(back) ==
    LET b == bullets[1]
        a == asteroids[1]
        along == (b.x - a.x) * CosDeg(b.heading) + (b.y - a.y) * SinDeg(b.heading)
        across == (b.y - a.y) * CosDeg(b.heading) - (b.x - a.x) * SinDeg(b.heading)
        head == along - back
        nearest == IF head < 0 THEN head ELSE IF head - BulletLength > 0
                                               THEN head - BulletLength ELSE 0
    IN nearest * nearest + across * across

FrameTravel == (BulletSpeed * SweepDeltaTime) \div 10

\* the bullet passes completely through the disc during the frame: the
\* segment is outside the disc at the start and at the end of the frame and
\* inside or on it at some moment between
PassesThrough ==
    LET rad_sq == asteroids[1].radius * asteroids[1].radius
    IN /\ SegmentDistSq(FrameTravel) > rad_sq
       /\ SegmentDistSq(0) > rad_sq
       /\ \E back \in 1..(FrameTravel - 1) : SegmentDistSq(back) <= rad_sq

\* C25: no tunneling.  A bullet whose segment passes completely through the
\* disc of an asteroid at rest during one frame, touching it neither at the
\* start nor at the end of the frame, is reported as a collision of that
\* bullet and that asteroid in that frame.
C25_NoTunneling ==
    (pc = "detected" /\ PassesThrough) =>
        collisions = << [bul_idx |-> 1, ast_idx |-> 1] >>

\* a bullet has flown through a disc of radius 8 whose centre is 40 units
\* behind the head and 7 units to the side of the line of flight
C25_Witness ==
    /\ pc = "detected" /\ PassesThrough
    /\ asteroids[1].radius = 8
    /\ bullets[1].heading = 90
    /\ asteroids[1].x = 500 - 7 /\ asteroids[1].y = 500 - 40
    /\ Len(collisions) = 1

\* C26: in every frame in which a ship's respawn invulnerability ends (the
\* ship is respawning before Ship.update and not after it), whether the timer
\* ran out or a successful fire or mine deployment cancelled it,
\* was_respawning_until_this_frame is true after the update, hence during the
\* collision phase of that frame, which then uses the t=0 distance check.
C26_FlagSetWhenInvulnerabilityEnds ==
    [][pc = "update" =>
        \A i \in DOMAIN ships :
            (ships[i].respawning # 0 /\ ships'[i].respawning = 0)
                => ships'[i].was_respawning_until_this_frame]_vars

\* C27: drag never sets a resting ship in motion against its thrust: after
\* Ship.update on a ship that starts the frame at rest, the new speed is zero
\* or has the sign of the commanded thrust; with 0 < |thrust| < drag the ship
\* does not acquire a speed of the opposite sign.
C27_RestingShipNotDraggedBackwards ==
    (pc = "kinematics" /\ log.before # <<>> /\ log.before[1].speed = 0) =>
        \/ ships[1].speed = 0
        \/ ships[1].speed > 0 /\ log.before[1].thrust > 0
        \/ ships[1].speed < 0 /\ log.before[1].thrust < 0

\* the number of asteroids of size z in a list
CountSize(list, z) == Cardinality({k \in DOMAIN list : list[k].size = z})

\* a category that destroys the asteroids at the indices hit of the list it
\* started with leaves that list without them and with three children of the
\* next smaller size for each of them that was not of size 1
ListLeftBy(hit) ==
    \A z \in 1..4 :
        CountSize(asteroids', z) =
            CountSize(asteroids, z)
            - Cardinality({a \in hit : asteroids[a].size = z})
            + 3 * Cardinality({a \in hit : asteroids[a].size = z + 1})

\* C28: the collision categories run in the order bullet-asteroid, mine
\* blast, ship-asteroid, ship-ship, and each works on the lists the previous
\* one left: the asteroids a category destroys are gone from the list and
\* their children are in it when the next category starts, and the next
\* category examines exactly the asteroids of that list.
C28_CategoriesInOrderOnUpdatedLists ==
    [][/\ pc' = "bullet_asteroid" => pc = "update"
       /\ pc = "bullet_asteroid" =>
             /\ pc' = "mine_blast"
             /\ \A k \in DOMAIN collisions' : collisions'[k][3] \in Indices(asteroids)
             /\ ListLeftBy({collisions'[k][3] : k \in Range(log'.resolved)})
       /\ pc = "mine_blast" =>
             /\ pc' = "ship_asteroid"
             /\ IF \E m \in DOMAIN mines : mines[m].detonating
                THEN /\ DOMAIN log'.credits = Indices(asteroids)
                     /\ ListLeftBy({a \in Indices(asteroids) : log'.credits[a] # 0})
                ELSE asteroids' = asteroids
       /\ pc = "ship_asteroid" =>
             /\ pc' = "ship_ship"
             /\ \A k \in DOMAIN collisions' : collisions'[k][3] \in Indices(asteroids)
             /\ ListLeftBy({collisions'[k][3] : k \in Range(log'.resolved)})
       /\ pc = "ship_ship" => (pc' = "frame_end" /\ asteroids' = asteroids)]_vars

\* in one frame a bullet has split the asteroid of size 2 and the mine blast
\* that followed has examined its three children, appended by the bullet
\* step, and destroyed one of them
C28_Witness ==
    /\ pc = "ship_asteroid"
    /\ log.spawned = 3
    /\ Len(log.before.asteroids) = 3
    /\ \E a \in DOMAIN log.credits :
          /\ a > Len(log.before.asteroids) - log.spawned
          /\ log.credits[a] # 0
    /\ Len(asteroids) = 2

\* C29: a successful fire or mine deployment cancels respawn invulnerability:
\* when Ship.update returns a bullet or a mine, the ship's respawn timer is 0
\* after the update, so the ship is not respawning in the collision phase of
\* that frame; a request that is refused (cooldown running or no ammunition)
\* and a frame without request leave the timer to its per-frame decrement.
C29_FireOrMineCancelsRespawn ==
    [][pc = "update" =>
        \A i \in Range(liveships) :
            LET fired == ships'[i].bullets_shot > ships[i].bullets_shot
                mined == ships'[i].mines_dropped > ships[i].mines_dropped
            IN /\ fired <=> (commands[i].fire /\ can_fire(ships[i]))
               /\ mined <=> (commands[i].drop_mine /\ can_deploy_mine(ships[i]))
               /\ (fired \/ mined) =>
                     (ships'[i].respawning = 0 /\ ~is_respawning(ships'[i]))
               /\ ~(fired \/ mined) =>
                     ships'[i].respawning = Countdown(ships[i].respawning)]_vars

\* a ship destructed in the first frame has fired or laid a mine in the
\* second, one frame before its timer would have run out, and has been
\* destructed again by an asteroid in that second frame
C29_Witness ==
    /\ pc = "ship_ship" /\ sim_frame = 1
    /\ \E k \in DOMAIN log.destructs :
          LET d == log.destructs[k]
          IN /\ d.step = "ship_asteroid"
             /\ d.deaths = 1 /\ ~d.is_respawning
             /\ ships[d.ship].deaths = 2
             /\ ships[d.ship].bullets_shot + ships[d.ship].mines_dropped >= 1

\* C30: the mine step leaves a live mine list that contains no detonating
\* mine and contains every mine that was not detonating before the step
\* exactly once, and nothing else: the swap-and-pop loop neither skips a
\* detonating mine swapped into the current index nor loses or duplicates a
\* mine that is not detonating.
C30_SwapAndPopRemovesExactlyDetonated ==
    [][pc = "mine_blast" =>
        /\ \A k \in Indices(mines') : ~mines'[k].detonating
        /\ \A j \in Indices(mines) :
              ~mines[j].detonating =>
                 Cardinality({k \in Indices(mines') : mines'[k] = mines[j]}) = 1
        /\ Len(mines') = Cardinality({j \in Indices(mines) : ~mines[j].detonating})]_vars

\* the mine step started with two detonating mines, the second of which was
\* swapped into the slot of the first, and has left an empty list
C30_Witness ==
    /\ pc = "ship_asteroid"
    /\ Len(log.before.mines) = 2
    /\ \A j \in Indices(log.before.mines) : log.before.mines[j].detonating
    /\ mines = <<>>

\* C31: after every Ship.update, integration_initial_states holds 1 or 2
\* records in reverse order of time that tile [-delta_time, 0] (the first
\* starts at 0, the last ends at -delta_time, consecutive records share their
\* boundary), and in every record v0 and theta0 are the speed and heading
\* the forward integration had at the record's start time, and a its
\* acceleration in that phase.
C31_RecordsMirrorForwardIntegration ==
    (pc = "kinematics" /\ log.before # <<>> /\ ~ships[1].raised) =>
        LET recs == ships[1].integration_initial_states
            phases == ships[1].phases
            n == Len(recs)
        IN /\ n \in {1, 2} /\ n = Len(phases)
           /\ recs[1].start_t = 0
           /\ recs[n].end_t * 10 = -DeltaTime * recs[n].den
           /\ \A k \in 1..(n - 1) : recs[k].end_t = recs[k + 1].start_t
           /\ \A k \in 1..n :
                 LET ph == phases[n + 1 - k]
                 IN /\ recs[k].end_t < recs[k].start_t
                    /\ recs[k].start_t = ph.to_t - phases[n].to_t
                    /\ recs[k].end_t = ph.from_t - phases[n].to_t
                    /\ recs[k].a = ph.a
                    /\ recs[k].theta0 = ph.theta_to
                    /\ recs[k].v0 = ph.v_to

\* ---- the cooldown timers of Ship.update at other frame rates --------------
\* time in ticks of 1/300 s: fire_time 0.1 s, mine_deploy_time 1.0 s,
\* respawn_time 3.0 s; frames of 1/30 s, 1/20 s, 1/3 s and 7/15 s
TickFireTime == 30
TickMineDeployTime == 300
TickRespawnTime == 900
TickDeltaTimes == {10, 15, 100, 140}
MaxSince == 31           \* frames counted since the last projectile

\* a timer decremented without the clamp at zero
TimerTick_NoClamp(t, delta_time) == IF t # 0 THEN t - delta_time ELSE 0

\* if timer != 0.0: timer -= delta_time; if timer <= 1e-12: timer = 0.0
TimerTick(t, delta_time) ==
    IF t # 0 THEN (IF t - delta_time <= 0 THEN 0 ELSE t - delta_time) ELSE 0

\* Ship.update from the fire request on: fire_bullet, deploy_mine, then the
\* three timers; made tells what was returned
TimersUpdate(s, fire, drop_mine, delta_time) ==
    LET shoots == fire /\ s.fire_limiter = 0 /\ s.bullets_remaining # 0
        fired == IF shoots
                 THEN [s EXCEPT !.respawning = 0, !.fire_limiter = TickFireTime,
                                !.bullets_remaining = IF @ # -1 THEN @ - 1 ELSE @,
                                !.bullets_shot = @ + 1]
                 ELSE s
        drops == drop_mine /\ fired.mine_limiter = 0 /\ fired.mines_remaining # 0
        mined == IF drops
                 THEN [fired EXCEPT !.respawning = 0, !.mine_limiter = TickMineDeployTime,
                                    !.mines_remaining = IF @ # -1 THEN @ - 1 ELSE @,
                                    !.mines_dropped = @ + 1]
                 ELSE fired
    IN [ship |-> [mined EXCEPT !.respawning = TimerTick(@, delta_time),
                               !.fire_limiter = TimerTick(@, delta_time),
                               !.mine_limiter = TimerTick(@, delta_time)],
        new_bullet |-> shoots, new_mine |-> drops]

\* frames since the last projectile, counted up to MaxSince; -1 for never
Since(n, made) == IF made THEN 0 ELSE IF n = -1 THEN -1 ELSE Min(n + 1, MaxSince)

\* a ship with unlimited ammunition at some frame rate; log keeps the frames
\* since its last bullet and mine and, right after an update that returned
\* one, the frames between it and the one before
TimersInit ==
    /\ pc = "timers"
    /\ ships = << [fire_limiter |-> 0, mine_limiter |-> 0, respawning |-> 0,
                   bullets_remaining |-> -1, mines_remaining |-> -1,
                   bullets_shot |-> 0, mines_dropped |-> 0] >>
    /\ \E delta_time \in TickDeltaTimes :
         log = [delta_time |-> delta_time, since_bullet |-> -1, since_mine |-> -1,
                bullet_gap |-> 0, mine_gap |-> 0]
    /\ liveships = <<1>>
    /\ asteroids = <<>> /\ bullets = <<>> /\ mines = <<>>
    /\ sim_time = 0 /\ sim_frame = 0
    /\ stop_reason = not_stopped
    /\ scenario = [time_limit |-> 0]
    /\ time_limit = GameTimeLimit
    /\ commands = <<>> /\ collisions = <<>> /\ controllers = <<>>
    /\ ships_exempt_from_further_damage = <<>>
    /\ cull_ships = FALSE
    /\ score = <<>>
    /\ game_state = None

\* one frame: the controller requests what it likes and the ship is updated;
\* the counters of the projectiles are not followed
TimersUpdateStep ==
    /\ pc = "timers"
    /\ \E fire \in BOOLEAN, drop_mine \in BOOLEAN :
         LET upd == TimersUpdate(ships[1], fire, drop_mine, log.delta_time)
         IN /\ ships' = << [upd.ship EXCEPT !.bullets_shot = 0, !.mines_dropped = 0] >>
            /\ log' = [log EXCEPT
                         !.since_bullet = Since(@, upd.new_bullet),
                         !.bullet_gap = IF upd.new_bullet /\ log.since_bullet # -1
                                        THEN log.since_bullet + 1 ELSE 0,
                         !.since_mine = Since(@, upd.new_mine),
                         !.mine_gap = IF upd.new_mine /\ log.since_mine # -1
                                      THEN log.since_mine + 1 ELSE 0]
    /\ UNCHANGED <<controllers, pc, liveships, asteroids, bullets, mines, sim_time,
                   sim_frame, stop_reason, scenario, time_limit, commands, collisions,
                   ships_exempt_from_further_damage, cull_ships, score, game_state>>

\* the ship is destructed and respawns: the respawn timer is started
TimersDestruct ==
    /\ pc = "timers" /\ ships[1].respawning = 0
    /\ ships' = << [ships[1] EXCEPT !.respawning = TickRespawnTime] >>
    /\ UNCHANGED <<controllers, pc, liveships, asteroids, bullets, mines, sim_time,
                   sim_frame, stop_reason, scenario, time_limit, commands, collisions,
                   ships_exempt_from_further_damage, cull_ships, score, log, game_state>>

TimersNext ==
    \/ TimersUpdateStep
    \/ TimersDestruct

TimersSpec == TimersInit /\ [][TimersNext]_vars

\* the least number of frames that lasts at least t
CeilFrames(t, delta_time) == (t + delta_time - 1) \div delta_time

\* C32: a ship fires at most one bullet per frame and two consecutive
\* bullets of a ship are at least ceil(fire_time / delta_time) frames apart,
\* whatever the controller requests; two consecutive mines are at least
\* ceil(mine_deploy_time / delta_time) frames apart; the fire, mine and
\* respawn timers are never negative.
C32_CooldownsSpaceProjectiles ==
    /\ log.bullet_gap # 0 => log.bullet_gap >= CeilFrames(TickFireTime, log.delta_time)
    /\ log.mine_gap # 0 => log.mine_gap >= CeilFrames(TickMineDeployTime, log.delta_time)
    /\ ships[1].fire_limiter >= 0 /\ ships[1].mine_limiter >= 0
    /\ ships[1].respawning >= 0

\* at 30 Hz an update has returned a bullet 3 frames after the bullet before
\* and a mine 30 frames after the mine before
C32_Witness ==
    /\ log.delta_time = 10
    /\ log.bullet_gap = 3
    /\ log.mine_gap = 30

\* the number of projectiles of a list that ship i owns
Owned(list, i) == Cardinality({k \in DOMAIN list : list[k].owner = i})

\* the ammunition counter of a ship that started with `initial` and has used
\* `used`: never negative and initial - used when limited, -1 for ever when
\* unlimited
AmmoAccounted(initial, remaining, used) ==
    /\ initial >= 0 => (remaining >= 0 /\ remaining + used = initial)
    /\ initial = -1 => remaining = -1

\* C33: for a ship with limited bullets, bullets_remaining >= 0 and
\* bullets_remaining + bullets_shot is the initial bullets_remaining in every
\* state, and no bullet is created when bullets_remaining is 0; with
\* bullets_remaining -1 the counter stays -1.  The same holds for
\* mines_remaining and mines_dropped.
C33_AmmoAccounting ==
    /\ [](\A i \in DOMAIN ships :
            /\ AmmoAccounted(scenario.bullet_limit,
                             ships[i].bullets_remaining, ships[i].bullets_shot)
            /\ AmmoAccounted(scenario.mines_remaining[i],
                             ships[i].mines_remaining, ships[i].mines_dropped))
    /\ [][\A i \in DOMAIN ships :
            /\ Owned(bullets', i) - Owned(bullets, i) <=
                  ships'[i].bullets_shot - ships[i].bullets_shot
            /\ Len(mines') > Len(mines) =>
                  Owned(mines', i) - Owned(mines, i) =
                     ships'[i].mines_dropped - ships[i].mines_dropped
            /\ ships[i].bullets_remaining = 0 =>
                  (Owned(bullets', i) <= Owned(bullets, i)
                   /\ ships'[i].bullets_shot = ships[i].bullets_shot)
            /\ ships[i].mines_remaining = 0 =>
                  (Owned(mines', i) <= Owned(mines, i)
                   /\ ships'[i].mines_dropped = ships[i].mines_dropped)]_vars

\* a ship with one bullet and one mine has used both: both counters are 0
\* and its bullet and its mine are in the live lists
C33_Witness ==
    /\ pc = "bullet_asteroid"
    /\ \E i \in DOMAIN ships :
          /\ scenario.bullet_limit = 1 /\ scenario.mines_remaining[i] = 1
          /\ ships[i].bullets_remaining = 0 /\ ships[i].bullets_shot = 1
          /\ ships[i].mines_remaining = 0 /\ ships[i].mines_dropped = 1
          /\ Owned(bullets, i) = 1 /\ Owned(mines, i) = 1

\* the entries of this frame's destruct log that are about roster ship i
DestructsOf(i) == {k \in Indices(log.destructs) : log.destructs[k].ship = i}

\* C34: across the mine-blast, ship-asteroid and ship-ship steps of one frame
\* Ship.destruct is called at most once on any ship, so a ship loses at most
\* one life per frame, whatever it overlaps.
C34_AtMostOneDestructPerFrame ==
    \A i \in DOMAIN ships :
       /\ Cardinality(DestructsOf(i)) <= 1
       /\ \A k \in DestructsOf(i) :
             pc \in {"ship_asteroid", "ship_ship", "frame_end"} =>
                /\ ships[i].lives = log.destructs[k].lives - 1
                /\ ships[i].deaths = log.destructs[k].deaths + 1

\* a ship with two asteroid collisions in the candidate list of the frame has
\* been destructed once and is left with a life
C34_Witness ==
    /\ pc = "ship_ship"
    /\ \E c1, c2 \in Indices(collisions) :
          /\ c1 < c2
          /\ collisions[c1][2] = collisions[c2][2]
          /\ LET i == liveships[collisions[c1][2]]
             IN /\ Cardinality(DestructsOf(i)) = 1
                /\ ships[i].lives >= 1

\* C35: when all ships start with a life, at the start and at the end of
\* every frame the live-ship list is the sublist of the roster of the ships
\* with lives > 0, in roster order; hence every non-respawning ship the
\* mine-blast step examines is alive.
C35_LiveListIsAliveRoster ==
    /\ pc \in {"controllers", "update", "bullet_asteroid", "mine_blast", "done"}
          => liveships = AliveRoster
    /\ pc = "mine_blast" =>
          \A k \in Indices(liveships) :
             ~is_respawning(ships[liveships[k]]) => alive(ships[liveships[k]])

\* a frame has ended in which one ship of several lost its last life and
\* left the list while a later ship of the roster stays on it
C35_Witness ==
    /\ pc = "controllers" /\ sim_frame > 0
    /\ \E i, j \in DOMAIN ships :
          /\ i < j
          /\ ~alive(ships[i]) /\ alive(ships[j])
          /\ liveships # <<>> /\ ~InList(i, liveships) /\ InList(j, liveships)

\* the bullets of the list that the physics phase of this frame appended:
\* they were fired at the end of their ship's update, time 0 of the frame
FiredThisFrame(bul_idx) == bul_idx > Len(bullets) - log.fired

\* C37: every resolved bullet-asteroid collision has a collision time no
\* earlier than the instant the bullet was fired: a bullet created in this
\* frame's physics phase destroys no asteroid at a time before 0.
C37_NoHitBeforeFired ==
    [][pc = "bullet_asteroid" =>
          \A k \in Range(log'.resolved) :
             FiredThisFrame(collisions'[k][2]) => collisions'[k][1] >= 0]_vars

\* C38: each bullet is credited with at most one asteroid over its whole
\* life and leaves the live bullet list in the frame in which it is credited;
\* hence for every ship bullets_hit <= bullets_shot in every state, and no
\* team's accuracy exceeds 1.
C38_OneCreditPerBullet ==
    /\ [](/\ \A i \in DOMAIN ships :
                ships[i].bullets_hit + Owned(bullets, i) <= ships[i].bullets_shot
          /\ \A t \in DOMAIN score : score[t].bullets_hit <= score[t].shots_fired)
    /\ [][pc = "bullet_asteroid" =>
            /\ \A j, k \in Range(log'.resolved) :
                  collisions'[j][2] = collisions'[k][2] => j = k
            /\ \A i \in DOMAIN ships :
                  /\ ships'[i].bullets_hit - ships[i].bullets_hit =
                        Cardinality({k \in Range(log'.resolved) :
                                        bullets[collisions'[k][2]].owner = i})
                  /\ ships'[i].bullets_hit - ships[i].bullets_hit <=
                        Owned(bullets, i) - Owned(bullets', i)]_vars

\* the bullet step has credited one bullet that touched two asteroids: one
\* asteroid is gone, the bullet is gone, its owner has one hit for one shot
C38_Witness ==
    /\ pc = "mine_blast"
    /\ Len(log.resolved) = 1
    /\ \E j, k \in Indices(collisions) :
          j # k /\ collisions[j][2] = collisions[k][2]
    /\ \E i \in DOMAIN ships :
          /\ ships[i].bullets_hit = 1 /\ ships[i].bullets_shot = 1
          /\ Owned(bullets, i) = 0

\* frames a mine laid in the last frame of the last ship still needs: its
\* fuse runs FuseTime and each physics phase takes DeltaTime off it
ClearFrames == (FuseTime + DeltaTime - 1) \div DeltaTime

\* C39: once the live-ship list is empty the run stops within a bounded
\* number of frames even without a time limit: no projectile is added, every
\* bullet left is gone after the next bullet step it does not survive on the
\* map, every mine left loses DeltaTime per frame and is removed in the mine
\* step of the frame its fuse runs out, and then the stop reason is no_ships
\* or no_asteroids.
C39_StopsAfterLastShip ==
    /\ []((liveships = <<>> /\ pc = "controllers"
              /\ sim_frame + ClearFrames <= MaxFrames)
             => <>(stop_reason \in {no_ships, no_asteroids}))
    /\ []((liveships = <<>> /\ pc \in {"ship_asteroid", "ship_ship", "frame_end",
                                       "controllers", "update", "done"}) =>
             /\ \A k \in Indices(mines) :
                   /\ ~mines[k].detonating
                   /\ mines[k].countdown_timer > 0
                   /\ mines[k].countdown_timer <= FuseTime
             /\ \A k \in Indices(bullets) : ~OffMap(bullets[k]))
    /\ [][liveships = <<>> =>
             /\ Len(bullets') <= Len(bullets)
             /\ Len(mines') <= Len(mines)
             /\ pc = "update" =>
                   \A k \in Indices(mines) :
                      mines'[k].countdown_timer = mines[k].countdown_timer - DeltaTime]_vars

\* the run has no time limit, the last ship died a frame before the end while
\* its mine was armed and asteroids remained, and the run has stopped for
\* want of ships
C39_Witness ==
    /\ time_limit = Inf
    /\ stop_reason = no_ships
    /\ asteroids # <<>>
    /\ sim_frame < MaxFrames
    /\ \E i \in DOMAIN ships : ships[i].mines_dropped = 1 /\ ships[i].deaths = 1

\* ---- the GameState shared with the controllers --------------------------
\* Every entity owns one state list for its whole life (Ship._state,
\* Asteroid._state, Bullet._state, the mine's state); a GameState holds
\* references to these lists.  A reference is modelled by a handle: the
\* roster index for a ship's list, a number drawn at creation for the others
\* (log.next is the next one).

\* frames of a run with a shared GameState
SharedFrames == 3

\* what Ship.update_state writes into the ship's state list
ShipStateList(s) ==
    [position |-> s.x, velocity |-> s.vx, speed |-> s.speed,
     is_respawning |-> is_respawning(s),
     lives_remaining |-> s.lives, deaths |-> s.deaths]

\* Ship.update_state
update_state(s) == [s EXCEPT !.state = ShipStateList(s)]

\* Ship.__init__ with the state list it builds from the fields
ShipWithState(ship_id, lives, bullets_remaining, mines_remaining, x) ==
    LET s == Ship(ship_id, lives, bullets_remaining, mines_remaining, x)
    IN [state |-> ShipStateList(s)] @@ s

\* an entity with the handle of its state list
WithHandle(e, handle) == [state |-> handle] @@ e

\* the entities of a list, given the handles from first on
WithHandles(list, first) == [k \in DOMAIN list |-> WithHandle(list[k], first + k - 1)]

\* [e.state for e in list]
StatesOf(list) == [k \in DOMAIN list |-> list[k].state]

\* GameState.__init__, as far as run() changes it afterwards
GameState(ship_data, asteroid_data, bullet_data, mine_data, time, frame) ==
    [ships |-> ship_data, asteroids |-> asteroid_data, bullets |-> bullet_data,
     mines |-> mine_data, time |-> time, frame |-> frame]

\* GameState.add_asteroids, add_bullet, add_mine, update_ships
add_asteroids(gs, asteroid_list) == [gs EXCEPT !.asteroids = @ \o asteroid_list]
add_bullet(gs, bullet_data) == [gs EXCEPT !.bullets = Append(@, bullet_data)]
add_mine(gs, mine_data) == [gs EXCEPT !.mines = Append(@, mine_data)]
update_ships(gs, ships_data) == [gs EXCEPT !.ships = ships_data]

\* GameState.remove_asteroid that deletes the entry and closes the gap
remove_asteroid_Shift(gs, index) ==
    [gs EXCEPT !.asteroids = SubSeq(@, 1, index - 1) \o SubSeq(@, index + 1, Len(@))]

\* GameState.remove_asteroid, remove_bullet, remove_mine:
\* data[index] = data[-1]; data.pop()
remove_asteroid(gs, index) == [gs EXCEPT !.asteroids = SwapPop(@, index)]
remove_bullet(gs, index) == [gs EXCEPT !.bullets = SwapPop(@, index)]
remove_mine(gs, index) == [gs EXCEPT !.mines = SwapPop(@, index)]

\* GameState.ships as a controller reads it: a view of each referenced list
ShipViews(gs, roster) == [k \in DOMAIN gs.ships |-> roster[gs.ships[k]].state]

\* what the motion integration yields for a ship in these runs: full speed
SharedMotions == {<<100, MaxSpeed, 0>>}

\* a scenario of two ships, the second with a life to spare
SharedScenarios ==
    { [lives |-> <<1, 2>>, teams |-> <<1, 2>>, mines_remaining |-> <<1, 1>>, bullet_limit |-> 1,
       sizes |-> <<2>>, time_limit |-> 30, stop_if_no_ammo |-> FALSE] }

\* state of run() with competition_safe_mode off when it enters the loop
SharedInit ==
    \E sc \in SharedScenarios :
        /\ pc = "controllers"
        /\ ships = [i \in DOMAIN sc.lives |->
                      ShipWithState(i, sc.lives[i], sc.bullet_limit,
                                    sc.mines_remaining[i], 100)]
        /\ liveships = [i \in DOMAIN sc.lives |-> i]
        /\ asteroids = WithHandles(ScenarioAsteroids(sc), 1)
        /\ controllers = AssignControllers([i \in DOMAIN sc.lives |-> Controller],
                                           Len(sc.lives))
        /\ bullets = <<>>
        /\ mines = <<>>
        /\ sim_time = 0
        /\ sim_frame = 0
        /\ stop_reason = not_stopped
        /\ scenario = sc
        /\ time_limit = IF sc.time_limit # 0 THEN sc.time_limit ELSE GameTimeLimit
        /\ commands = [i \in DOMAIN sc.lives |-> NoCommand]
        /\ collisions = <<>>
        /\ ships_exempt_from_further_damage = <<>>
        /\ cull_ships = FALSE
        /\ log = [seen |-> <<>>, next |-> Len(sc.sizes) + 1, destructs |-> <<>>]
        /\ score = [t \in Range(sc.teams) |-> Team]
        /\ game_state = GameState([k \in DOMAIN sc.lives |-> k],
                                  [k \in DOMAIN sc.sizes |-> k], <<>>, <<>>, 0, 0)

\* the controller loop with the shared GameState: a ship that is alive has
\* its state list refreshed, then its controller is called with the
\* GameState; st.seen records what each call finds in it
RECURSIVE SharedControllerLoop(_, _, _)
SharedControllerLoop(ship_idx, ret, st) ==
    IF ship_idx > Len(ships) THEN st
    ELSE IF ~alive(st.ships[ship_idx]) THEN SharedControllerLoop(ship_idx + 1, ret, st)
    ELSE LET refreshed == [st.ships EXCEPT ![ship_idx] = update_state(@)]
         IN IF controllers[ship_idx].ship_id # refreshed[ship_idx].id
            THEN [st EXCEPT !.ships = refreshed, !.raised = TRUE]
            ELSE SharedControllerLoop(ship_idx + 1, ret,
                   [st EXCEPT !.ships = refreshed,
                              !.seen = Append(@, [caller |-> ship_idx,
                                                  ships |-> ShipViews(game_state, refreshed),
                                                  asteroids |-> game_state.asteroids,
                                                  bullets |-> game_state.bullets,
                                                  mines |-> game_state.mines,
                                                  time |-> game_state.time,
                                                  frame |-> game_state.frame]),
                              !.commands[ship_idx] = ret[ship_idx]])

SharedControllers ==
    /\ pc = "controllers"
    /\ stop_reason = not_stopped
    /\ sim_frame < SharedFrames
    /\ \E ret \in [DOMAIN ships -> Actions] :
          LET st == SharedControllerLoop(1, ret,
                       [ships |-> ships, commands |-> commands, seen |-> <<>>,
                        raised |-> FALSE])
          IN /\ ships' = st.ships
             /\ commands' = st.commands
             /\ log' = [log EXCEPT !.seen = st.seen]
             /\ pc' = IF st.raised THEN "raised" ELSE "update"
    /\ UNCHANGED <<controllers, liveships, asteroids, bullets, mines, sim_time, sim_frame,
                   stop_reason, scenario, time_limit, score, collisions,
                   ships_exempt_from_further_damage, cull_ships, game_state>>

\* the loop of the physics phase over the live ships from position k on:
\* Ship.update, which ends with update_state, then the new bullet and the
\* new mine are appended to the lists and their state lists to the GameState
RECURSIVE SharedShipUpdates(_, _, _)
SharedShipUpdates(k, kin, st) ==
    IF k > Len(liveships) THEN st
    ELSE LET i == liveships[k]
             upd == ShipUpdate(st.ships[i], commands[i], kin[i][1], kin[i][2])
             b == IF upd.new_bullet THEN 1 ELSE 0
             new_bullet == [owner |-> i, state |-> st.next]
             new_mine == WithHandle(Mine(i, sim_frame), st.next + b)
             gs1 == IF upd.new_bullet THEN add_bullet(st.gs, new_bullet.state) ELSE st.gs
             gs2 == IF upd.new_mine THEN add_mine(gs1, new_mine.state) ELSE gs1
         IN SharedShipUpdates(k + 1, kin,
              [ships |-> [st.ships EXCEPT ![i] = update_state(upd.ship)],
               bullets |-> IF upd.new_bullet THEN Append(st.bullets, new_bullet)
                                             ELSE st.bullets,
               mines |-> IF upd.new_mine THEN Append(st.mines, new_mine) ELSE st.mines,
               gs |-> gs2,
               next |-> st.next + b + (IF upd.new_mine THEN 1 ELSE 0)])

SharedUpdate ==
    /\ pc = "update"
    /\ \E kin \in [Range(liveships) -> SharedMotions] :
         LET st == SharedShipUpdates(1, kin,
                      [ships |-> ships, bullets |-> bullets,
                       mines |-> [k \in Indices(mines) |-> MineUpdate(mines[k])],
                       gs |-> game_state, next |-> log.next])
         IN /\ ships' = st.ships
            /\ bullets' = st.bullets
            /\ mines' = st.mines
            /\ game_state' = st.gs
            /\ log' = [log EXCEPT !.next = st.next, !.seen = <<>>, !.destructs = <<>>]
    /\ commands' = [i \in DOMAIN ships |-> NoCommand]
    /\ pc' = "bullet_asteroid"
    /\ UNCHANGED <<controllers, liveships, asteroids, sim_time, sim_frame, stop_reason,
                   scenario, time_limit, score, collisions,
                   ships_exempt_from_further_damage, cull_ships>>

\* the elements of a set of numbers in ascending order
RECURSIVE Ascending(_)
Ascending(S) ==
    IF S = {} THEN <<>>
    ELSE LET m == CHOOSE x \in S : \A y \in S : x <= y
         IN <<m>> \o Ascending(S \ {m})

\* new_asteroids.extend(asteroid.destruct(...)) for the asteroids at idxs in
\* turn; every child is a new Asteroid with a state list of its own
RECURSIVE SharedDestructs(_, _, _)
SharedDestructs(idxs, new_asteroids, next) ==
    IF idxs = <<>> THEN [new_asteroids |-> new_asteroids, next |-> next]
    ELSE LET children == AsteroidDestruct(asteroids[Head(idxs)])
         IN SharedDestructs(Tail(idxs),
                            new_asteroids \o WithHandles(children, next),
                            next + Len(children))

\* the calls game_state.remove_asteroid(ast_idx) of a removal loop
RECURSIVE RemoveAsteroids(_, _)
RemoveAsteroids(gs, idxs) ==
    IF idxs = <<>> THEN gs ELSE RemoveAsteroids(remove_asteroid(gs, Head(idxs)), Tail(idxs))

\* the calls game_state.remove_bullet(bul_idx) of the removal loop
RECURSIVE RemoveBullets(_, _)
RemoveBullets(gs, idxs) ==
    IF idxs = <<>> THEN gs ELSE RemoveBullets(remove_bullet(gs, Head(idxs)), Tail(idxs))

\* if new_asteroids: game_state.add_asteroids([a.state for a in new_asteroids])
AddNew(gs, new_asteroids) ==
    IF new_asteroids # <<>> THEN add_asteroids(gs, StatesOf(new_asteroids)) ELSE gs

\* a choice of targets in which no target is taken twice (0 for no target)
Matching(target) == \A a, b \in DOMAIN target : (target[a] # 0 /\ target[a] = target[b]) => a = b

\* the bullet-asteroid step: bul_hit[b] is the asteroid that bullet b is
\* resolved with (0 for none), off the bullets found off the map
SharedBulletAsteroid ==
    /\ pc = "bullet_asteroid"
    /\ \E bul_hit \in {t \in [Indices(bullets) -> 0..Len(asteroids)] : Matching(t)},
          off \in SUBSET Indices(bullets) :
         LET resolved == Ascending({b \in Indices(bullets) : bul_hit[b] # 0})
             asteroids_to_cull == [k \in DOMAIN resolved |-> bul_hit[resolved[k]]]
             bullets_to_cull == resolved \o Ascending(off \ Range(resolved))
             d == SharedDestructs(asteroids_to_cull, <<>>, log.next)
             gs == RemoveAsteroids(RemoveBullets(game_state, SortedReverse(bullets_to_cull)),
                                   SortedReverse(asteroids_to_cull))
         IN /\ ships' = [i \in DOMAIN ships |->
                           LET n == Cardinality({k \in DOMAIN resolved :
                                                    bullets[resolved[k]].owner = i})
                           IN [ships[i] EXCEPT !.asteroids_hit = @ + n,
                                               !.bullets_hit = @ + n]]
            /\ bullets' = CullAll(bullets, SortedReverse(bullets_to_cull))
            /\ asteroids' = CullAll(asteroids, SortedReverse(asteroids_to_cull))
                               \o d.new_asteroids
            /\ game_state' = AddNew(gs, d.new_asteroids)
            /\ log' = [log EXCEPT !.next = d.next]
    /\ pc' = "mine_blast"
    /\ UNCHANGED <<controllers, liveships, commands, mines, sim_time, sim_frame, stop_reason,
                   scenario, time_limit, score, collisions,
                   ships_exempt_from_further_damage, cull_ships>>

\* the while loop that removes the detonating mines, with its calls of
\* game_state.remove_mine(mine_idx)
RECURSIVE SharedRemoveDetonated(_, _, _)
SharedRemoveDetonated(list, gs, mine_idx) ==
    IF mine_idx > Len(list) THEN [mines |-> list, gs |-> gs]
    ELSE IF list[mine_idx].detonating
         THEN SharedRemoveDetonated(SwapPop(list, mine_idx), remove_mine(gs, mine_idx),
                                    mine_idx)
         ELSE SharedRemoveDetonated(list, gs, mine_idx + 1)

\* the ships at the positions of the live list in idxs, destructed
RECURSIVE DestructAll(_, _)
DestructAll(roster, idxs) ==
    IF idxs = <<>> THEN roster
    ELSE DestructAll([roster EXCEPT ![liveships[Head(idxs)]] = ShipDestruct(@)], Tail(idxs))

\* the mine step: ast_hit are the asteroids and ship_hit the positions of
\* the exposed ships that have a closest mine in range, which is mine closest
SharedMineBlast ==
    /\ pc = "mine_blast"
    /\ LET detonating_mines == SelectSeq(mines, LAMBDA m : m.detonating)
       IN IF detonating_mines = <<>>
          THEN UNCHANGED <<ships, asteroids, mines, game_state, log>>
          ELSE \E ast_hit \in SUBSET Indices(asteroids),
                  ship_hit \in SUBSET {k \in Indices(liveships) :
                                          ~is_respawning(ships[liveships[k]])},
                  closest \in Indices(detonating_mines) :
                 LET asteroids_to_cull == Ascending(ast_hit)
                     owner == detonating_mines[closest].owner
                     credited == [ships EXCEPT
                                     ![owner].asteroids_hit = @ + Len(asteroids_to_cull),
                                     ![owner].mines_hit = @ + Len(asteroids_to_cull)]
                     d == SharedDestructs(asteroids_to_cull, <<>>, log.next)
                     gs1 == RemoveAsteroids(game_state, Reverse(asteroids_to_cull))
                     r == SharedRemoveDetonated(mines, gs1, 1)
                 IN /\ ships' = DestructAll(credited, Ascending(ship_hit))
                    /\ asteroids' = CullAll(asteroids, Reverse(asteroids_to_cull))
                                       \o d.new_asteroids
                    /\ mines' = r.mines
                    /\ game_state' = AddNew(r.gs, d.new_asteroids)
                    /\ log' = [log EXCEPT !.next = d.next,
                                          !.destructs = @ \o [k \in DOMAIN Ascending(ship_hit) |->
                                                                liveships[Ascending(ship_hit)[k]]]]
    /\ cull_ships' = (log'.destructs # <<>>)
    /\ pc' = "ship_asteroid"
    /\ UNCHANGED <<controllers, liveships, commands, bullets, sim_time, sim_frame,
                   stop_reason, scenario, time_limit, score, collisions,
                   ships_exempt_from_further_damage>>

\* the ship-asteroid step: hit[k] is the asteroid that the ship at position
\* k of the live list is resolved with (0 for none)
SharedShipAsteroid ==
    /\ pc = "ship_asteroid"
    /\ \E hit \in {t \in [{k \in Indices(liveships) : Vulnerable(k)} -> 0..Len(asteroids)] :
                      Matching(t)} :
         LET exempt == Ascending({k \in DOMAIN hit : hit[k] # 0})
             asteroids_to_cull == [k \in DOMAIN exempt |-> hit[exempt[k]]]
             d == SharedDestructs(asteroids_to_cull, <<>>, log.next)
             credited == [i \in DOMAIN ships |->
                            IF \E k \in Range(exempt) : liveships[k] = i
                            THEN [ships[i] EXCEPT !.asteroids_hit = @ + 1] ELSE ships[i]]
         IN /\ ships' = DestructAll(credited, exempt)
            /\ ships_exempt_from_further_damage' = exempt
            /\ asteroids' = CullAll(asteroids, SortedReverse(asteroids_to_cull))
                               \o d.new_asteroids
            /\ game_state' = AddNew(RemoveAsteroids(game_state,
                                                    SortedReverse(asteroids_to_cull)),
                                    d.new_asteroids)
            /\ cull_ships' = (cull_ships \/ exempt # <<>>)
            /\ log' = [log EXCEPT !.next = d.next,
                                  !.destructs = @ \o [k \in DOMAIN exempt |->
                                                        liveships[exempt[k]]]]
    /\ pc' = "ship_ship"
    /\ UNCHANGED <<controllers, liveships, commands, bullets, mines, sim_time, sim_frame,
                   stop_reason, scenario, time_limit, score, collisions>>

\* the ship-ship step: pairs are the pairs of positions it resolves
SharedShipShip ==
    /\ pc = "ship_ship"
    /\ \E pairs \in SUBSET {p \in Indices(liveships) \X Indices(liveships) :
                              /\ p[1] < p[2]
                              /\ Vulnerable(p[1]) /\ Vulnerable(p[2])
                              /\ ~InList(p[1], ships_exempt_from_further_damage)
                              /\ ~InList(p[2], ships_exempt_from_further_damage)} :
         /\ \A p, q \in pairs : p # q => {p[1], p[2]} \cap {q[1], q[2]} = {}
         /\ LET hit == Ascending({p[1] : p \in pairs} \cup {p[2] : p \in pairs})
            IN /\ ships' = DestructAll(ships, hit)
               /\ ships_exempt_from_further_damage' =
                     ships_exempt_from_further_damage \o hit
               /\ cull_ships' = (cull_ships \/ hit # <<>>)
               /\ log' = [log EXCEPT !.destructs = @ \o [k \in DOMAIN hit |->
                                                           liveships[hit[k]]]]
    /\ pc' = "frame_end"
    /\ UNCHANGED <<controllers, liveships, commands, asteroids, bullets, mines, sim_time,
                   sim_frame, stop_reason, scenario, time_limit, score, collisions,
                   game_state>>

\* end of the frame: the cull of the live list, passed on to the GameState
\* when the list changed; the clock, copied into the GameState; the stop test
SharedFrameEnd ==
    /\ pc = "frame_end"
    /\ liveships' = CullShips(liveships, cull_ships)
    /\ sim_time' = sim_time + DeltaTime
    /\ sim_frame' = sim_frame + 1
    /\ game_state' = [(IF cull_ships /\ Len(liveships') # Len(liveships)
                       THEN update_ships(game_state, liveships') ELSE game_state)
                         EXCEPT !.time = sim_time', !.frame = sim_frame']
    /\ stop_reason' = StopCheck(liveships', sim_time')
    /\ pc' = IF stop_reason' = not_stopped THEN "controllers" ELSE "done"
    /\ ships_exempt_from_further_damage' = <<>>
    /\ cull_ships' = FALSE
    /\ score' = ScoreUpdate(ships)
    /\ UNCHANGED <<controllers, ships, asteroids, bullets, mines, scenario, time_limit,
                   commands, collisions, log>>

SharedNext ==
    \/ SharedControllers
    \/ SharedUpdate
    \/ SharedBulletAsteroid
    \/ SharedMineBlast
    \/ SharedShipAsteroid
    \/ SharedShipShip
    \/ SharedFrameEnd

\* the runs with competition_safe_mode off
SharedSpec == SharedInit /\ [][SharedNext]_vars

\* the GameState is aligned with the lists of run()
Aligned ==
    /\ game_state.bullets = StatesOf(bullets)
    /\ game_state.asteroids = StatesOf(asteroids)
    /\ game_state.mines = StatesOf(mines)
    /\ game_state.ships = liveships
    /\ game_state.time = sim_time
    /\ game_state.frame = sim_frame

\* C36: in every GameState handed to a controller the entry of each live
\* ship shows that ship's current lives_remaining, deaths, is_respawning,
\* speed and velocity, also for a ship destructed in the previous frame's
\* collision phase; so all controllers called in a frame see the same data
\* for every ship.
C36_SnapshotShowsCanonicalValues ==
    pc = "update" =>
       /\ \A c \in DOMAIN log.seen :
             \A k \in DOMAIN log.seen[c].ships :
                log.seen[c].ships[k] = ShipStateList(ships[game_state.ships[k]])
       /\ \A c1, c2 \in DOMAIN log.seen : log.seen[c1].ships = log.seen[c2].ships

\* C40: with competition_safe_mode off the shared GameState stays aligned
\* with the lists of run(): its bullet, asteroid and mine data are the state
\* lists of the live bullets, asteroids and mines in list order, its ship
\* data those of the live ships, its time and frame the clock, in every state
\* and in what every controller call finds.
C40_SharedStateAligned ==
    /\ Aligned
    /\ pc = "update" =>
          \A c \in DOMAIN log.seen :
             /\ log.seen[c].bullets = StatesOf(bullets)
             /\ log.seen[c].asteroids = StatesOf(asteroids)
             /\ log.seen[c].mines = StatesOf(mines)
             /\ Len(log.seen[c].ships) = Len(liveships)
             /\ log.seen[c].time = sim_time
             /\ log.seen[c].frame = sim_frame

\* the mine step has removed the first of two mines, after children were
\* appended, an asteroid ahead of a later one was swapped out and a ship was
\* culled
C40_Witness ==
    /\ pc = "ship_asteroid"
    /\ Len(liveships) < Len(ships)
    /\ \E j, k \in Indices(asteroids) : j < k /\ asteroids[j].state > asteroids[k].state
    /\ \A i \in DOMAIN ships : ships[i].mines_dropped = 1
    /\ Len(mines) = 1 /\ bullets # <<>>

====
